---- MODULE Spec2Model ----
(***************************************************************************)
(* Model of the OpenFeature MCP server's OFREP evaluation tool             *)
(* (ofrep_flag_eval, src/src/tools/ofrepTools.ts): argument validation,    *)
(* configuration resolution from call arguments, process environment and   *)
(* config file, construction of the single outbound request, and the       *)
(* mapping of the remote answer to the tool result; and of its install    *)
(* tool (install_openfeature_sdk, src/src/tools/installTools.ts): the      *)
(* bundled guide texts and the provider notes added to them.               *)
(*                                                                         *)
(* Strings are sequences of tokens (a token is a run of characters the     *)
(* code never looks inside); the empty string is <<>>.  An optional value  *)
(* is a record [def, v]; Undefined is JavaScript's undefined.              *)
(***************************************************************************)
EXTENDS Integers, Sequences, FiniteSets, TLC

VARIABLES
    env,        \* process.env: the six OFREP variables
    file,       \* what is on disk at the config path
    pc,         \* per invocation: where the async handler stands
    args,       \* per invocation: the raw arguments of the call
    parsed,     \* per invocation: OfrepArgsSchema.parse(args)
    envRead,    \* per invocation: envBase / envBearer / envApiKey
    cfg,        \* per invocation: what resolveConfig returned
    request,    \* per invocation: the arguments of the fetch call
    fetchCalls, \* per invocation: how many times fetch was called
    response,   \* per invocation: what the remote service answered
    bodyReads,  \* per invocation: response.json() / response.text() calls
    outcome,    \* per invocation: how the handler ended and with what
    elapsed,    \* per invocation: the caller's timeoutMs has passed
    install,    \* per invocation of install_openfeature_sdk: its state
    tables,     \* the module-level BUNDLED_PROMPTS and PROVIDER_DOCS objects
    reply,      \* per invocation and tool: what the adapter gave the server
    process     \* the server process: running or not, and why it ended

vars == <<env, file, pc, args, parsed, envRead, cfg, request, fetchCalls,
          response, bodyReads, outcome, elapsed, install, tables, reply,
          process>>

----------------------------------------------------------------------------
(* Optional values and the JavaScript operators the code applies to them.  *)

Undefined == [def |-> FALSE, v |-> <<>>]

Some(s) == [def |-> TRUE, v |-> s]

\* a ?? b
Coalesce(a, b) == IF a.def THEN a ELSE b

\* truthiness of an optional string: defined and not ""
Truthy(o) == o.def /\ o.v # <<>>

----------------------------------------------------------------------------
(* Sample values.  Every source of a field has its own value, so that the  *)
(* source a resolved value came from can be read off the value.            *)

ArgBase == <<"https://args.example.com">>
ArgBaseSlash == <<"https://args.example.com", "/">>
ArgBaseSlash2 == <<"https://args.example.com", "/", "/">>
EnvBaseOF == <<"https://env.example.com">>
EnvBaseLegacy == <<"https://legacy-env.example.com", "/">>
FileBase == <<"https://file.example.com">>
NotAUrl == <<"not-a-valid-url">>

\* the strings new URL() accepts: they start with a scheme and a host
UrlHeads ==
    {"https://args.example.com", "https://env.example.com",
     "https://legacy-env.example.com", "https://file.example.com"}

----------------------------------------------------------------------------
(* process.env.  A variable is unset (Undefined), set to "" or set to a   *)
(* value.                                                                  *)

EnvNames ==
    {"OPENFEATURE_OFREP_BASE_URL", "OFREP_BASE_URL",
     "OPENFEATURE_OFREP_BEARER_TOKEN", "OFREP_BEARER_TOKEN",
     "OPENFEATURE_OFREP_API_KEY", "OFREP_API_KEY"}

EnvValues(n) ==
    CASE n = "OPENFEATURE_OFREP_BASE_URL" -> {<<>>, EnvBaseOF}
      [] n = "OFREP_BASE_URL" -> {EnvBaseLegacy}
      [] n = "OPENFEATURE_OFREP_BEARER_TOKEN" -> {<<>>, <<"env-token">>}
      [] n = "OFREP_BEARER_TOKEN" -> {<<"legacy-env-token">>}
      [] n = "OPENFEATURE_OFREP_API_KEY" -> {<<"env-key">>}
      [] n = "OFREP_API_KEY" -> {<<"legacy-env-key">>}

\* at most this many of the six variables are set at a time
MaxEnvSet == 3

----------------------------------------------------------------------------
(* The config file: missing, unreadable, not JSON, JSON without an OFREP   *)
(* section, or JSON with an OFREP section of optional string fields.       *)

NoSection ==
    [baseUrl |-> Undefined, bearerToken |-> Undefined,
     token |-> Undefined, apiKey |-> Undefined]

FileSections ==
    [baseUrl : {Undefined, Some(<<>>), Some(FileBase)},
     bearerToken : {Undefined, Some(<<>>), Some(<<"file-token">>)},
     token : {Undefined, Some(<<"file-legacy-token">>)},
     apiKey : {Undefined, Some(<<"file-key">>)}]

FileStates ==
    [kind : {"missing", "unreadable", "invalidJson", "noSection"},
     OFREP : {NoSection}]
    \cup [kind : {"section"}, OFREP : FileSections]

\* OfrepConfigSchema: baseUrl is a string of length >= 1 and at least one of
\* bearerToken, token, apiKey is truthy
OfrepConfigSchema(o) ==
    /\ o.baseUrl.def
    /\ Len(o.baseUrl.v) >= 1
    /\ (Truthy(o.bearerToken) \/ Truthy(o.token) \/ Truthy(o.apiKey))

\* ConfigFileSchema: the document has an OFREP member that passes
\* OfrepConfigSchema
ConfigFileSchema(f) == f.kind = "section" /\ OfrepConfigSchema(f.OFREP)

\* readConfigFromFile whose catch does not cover JSON.parse
readConfigFromFileNoCatch(f) ==
    IF f.kind \in {"missing", "unreadable"}
    THEN [threw |-> FALSE, null |-> TRUE, OFREP |-> NoSection]
    ELSE IF f.kind = "invalidJson"
    THEN [threw |-> TRUE, null |-> TRUE, OFREP |-> NoSection]
    ELSE IF ~ConfigFileSchema(f)
    THEN [threw |-> FALSE, null |-> TRUE, OFREP |-> NoSection]
    ELSE [threw |-> FALSE, null |-> FALSE, OFREP |-> f.OFREP]

\* readConfigFromFile: readFile, JSON.parse and ConfigFileSchema.parse each
\* throw on failure; the catch turns every throw into null.  The result is
\* [threw, null, OFREP].
readConfigFromFile(f) ==
    IF f.kind \in {"missing", "unreadable"}
    THEN [threw |-> FALSE, null |-> TRUE, OFREP |-> NoSection]
    ELSE IF f.kind = "invalidJson"
    THEN [threw |-> FALSE, null |-> TRUE, OFREP |-> NoSection]
    ELSE IF ~ConfigFileSchema(f)
    THEN [threw |-> FALSE, null |-> TRUE, OFREP |-> NoSection]
    ELSE [threw |-> FALSE, null |-> FALSE, OFREP |-> f.OFREP]

\* fileCfg?.field
FileField(fileCfg, field) ==
    IF fileCfg.null THEN Undefined ELSE fileCfg.OFREP[field]

\* the environment reads with the two spellings in the other order
ReadEnvLegacyFirst(e) ==
    [envBase |-> Coalesce(e["OFREP_BASE_URL"], e["OPENFEATURE_OFREP_BASE_URL"]),
     envBearer |-> Coalesce(e["OFREP_BEARER_TOKEN"],
                            e["OPENFEATURE_OFREP_BEARER_TOKEN"]),
     envApiKey |-> Coalesce(e["OFREP_API_KEY"], e["OPENFEATURE_OFREP_API_KEY"])]

\* the three environment reads at the top of resolveConfig
ReadEnv(e) ==
    [envBase |-> Coalesce(e["OPENFEATURE_OFREP_BASE_URL"], e["OFREP_BASE_URL"]),
     envBearer |-> Coalesce(e["OPENFEATURE_OFREP_BEARER_TOKEN"],
                            e["OFREP_BEARER_TOKEN"]),
     envApiKey |-> Coalesce(e["OPENFEATURE_OFREP_API_KEY"], e["OFREP_API_KEY"])]

NoEnvRead ==
    [envBase |-> Undefined, envBearer |-> Undefined, envApiKey |-> Undefined]

\* args.auth?.field
AuthField(a, field) == IF a.auth.def THEN a.auth[field] ELSE Undefined

NullCfg == [null |-> TRUE, baseUrl |-> <<>>, bearerToken |-> <<>>,
            token |-> <<>>, apiKey |-> <<>>]

\* resolveConfig without its "if (!baseUrl) return null"
resolveConfigNoCheck(a, er, fileCfg) ==
    LET baseUrl == Coalesce(a.base_url,
                     Coalesce(er.envBase, FileField(fileCfg, "baseUrl")))
        bearerToken == Coalesce(AuthField(a, "bearer_token"),
                         Coalesce(er.envBearer,
                           Coalesce(FileField(fileCfg, "bearerToken"),
                                    FileField(fileCfg, "token"))))
        apiKey == Coalesce(AuthField(a, "api_key"),
                    Coalesce(er.envApiKey, FileField(fileCfg, "apiKey")))
    IN  [null |-> FALSE,
         baseUrl |-> Coalesce(baseUrl, Some(<<>>)).v,
         bearerToken |-> Coalesce(bearerToken, Some(<<>>)).v,
         token |-> <<>>,
         apiKey |-> Coalesce(apiKey, Some(<<>>)).v]

\* resolveConfig after the file read: a is the parsed arguments, er the
\* environment reads, fileCfg the result of readConfigFromFile
resolveConfig(a, er, fileCfg) ==
    LET baseUrl == Coalesce(a.base_url,
                     Coalesce(er.envBase, FileField(fileCfg, "baseUrl")))
        bearerToken == Coalesce(AuthField(a, "bearer_token"),
                         Coalesce(er.envBearer,
                           Coalesce(FileField(fileCfg, "bearerToken"),
                                    FileField(fileCfg, "token"))))
        apiKey == Coalesce(AuthField(a, "api_key"),
                    Coalesce(er.envApiKey, FileField(fileCfg, "apiKey")))
    IN  IF ~Truthy(baseUrl)
        THEN NullCfg
        ELSE [null |-> FALSE,
              baseUrl |-> baseUrl.v,
              bearerToken |-> Coalesce(bearerToken, Some(<<>>)).v,
              token |-> <<>>,
              apiKey |-> Coalesce(apiKey, Some(<<>>)).v]

----------------------------------------------------------------------------
(* JSON values and JSON.stringify.  A value is a record [t, s, n, o]: a    *)
(* string (s), a number (n), true, an object (o, its members in insertion  *)
(* order as <<key, value>> pairs) or undefined.  The text JSON.stringify   *)
(* returns is a sequence of tokens; indentation is not represented.        *)

JUndef == [t |-> "undef", s |-> <<>>, n |-> 0, o |-> <<>>]
JStr(str) == [t |-> "str", s |-> str, n |-> 0, o |-> <<>>]
JNum(num) == [t |-> "num", s |-> <<>>, n |-> num, o |-> <<>>]
JTrue == [t |-> "true", s |-> <<>>, n |-> 0, o |-> <<>>]
JObj(members) == [t |-> "obj", s |-> <<>>, n |-> 0, o |-> members]

\* an optional string as a JSON value
JOpt(o) == IF o.def THEN JStr(o.v) ELSE JUndef

Quote(str) == <<"\"">> \o str \o <<"\"">>

RECURSIVE JSONStringify(_)
RECURSIVE StringifyMembers(_, _)

\* the members of an object, comma separated; a member whose value is
\* undefined is left out
StringifyMembers(members, first) ==
    IF members = <<>>
    THEN <<>>
    ELSE LET m == Head(members)
         IN  IF m[2].t = "undef"
             THEN StringifyMembers(Tail(members), first)
             ELSE (IF first THEN <<>> ELSE <<",">>)
                  \o Quote(<<m[1]>>) \o <<":">> \o JSONStringify(m[2])
                  \o StringifyMembers(Tail(members), FALSE)

JSONStringify(val) ==
    CASE val.t = "str" -> Quote(val.s)
      [] val.t = "num" -> <<ToString(val.n)>>
      [] val.t = "true" -> <<"true">>
      [] val.t = "obj" -> <<"{">> \o StringifyMembers(val.o, TRUE) \o <<"}">>
      [] val.t = "undef" -> <<>>

\* jsonStringifySafe: JSON.stringify cannot throw on the values built here
\* (numbers, strings, parsed JSON), so the String(value) branch is dead
jsonStringifySafe(val) == JSONStringify(val)

----------------------------------------------------------------------------
(* The arguments of a call and OfrepArgsSchema.                            *)

NoAuth == [def |-> FALSE, bearer_token |-> Undefined, api_key |-> Undefined]

Auth(b, k) == [def |-> TRUE, bearer_token |-> b, api_key |-> k]

TargetingKey == <<"targetingKey", JStr(<<"user-123">>)>>
Plan == <<"plan", JStr(<<"pro">>)>>
TargetingKeyNum == <<"targetingKey", JNum(7)>>

\* z.string().url(): the string parses as an absolute URL
IsUrl(str) == Len(str) >= 1 /\ str[1] \in UrlHeads

\* the schema with base_url declared z.string().optional(), without .url()
ArgsValidAnyBaseUrl(a) ==
    /\ a.context.def =>
         \A i \in 1..Len(a.context.v) :
            a.context.v[i][1] = "targetingKey" => a.context.v[i][2].t = "str"
    /\ a.auth.def =>
         /\ a.auth.bearer_token.def => Len(a.auth.bearer_token.v) >= 1
         /\ a.auth.api_key.def => Len(a.auth.api_key.v) >= 1

\* OfrepArgsSchema accepts the arguments
ArgsValid(a) ==
    /\ a.base_url.def => IsUrl(a.base_url.v)
    /\ a.context.def =>
         \A i \in 1..Len(a.context.v) :
            a.context.v[i][1] = "targetingKey" => a.context.v[i][2].t = "str"
    /\ a.auth.def =>
         /\ a.auth.bearer_token.def => Len(a.auth.bearer_token.v) >= 1
         /\ a.auth.api_key.def => Len(a.auth.api_key.v) >= 1

\* what zod returns for the context object: the declared key first, then the
\* passed-through keys in their input order
ZodContext(members) ==
    LET IsTk(m) == m[1] = "targetingKey"
        IsOther(m) == m[1] # "targetingKey"
    IN  SelectSeq(members, IsTk) \o SelectSeq(members, IsOther)

\* the parse of a context schema without .passthrough(): undeclared keys
\* are stripped
OfrepArgsSchemaParseStrip(a) ==
    LET IsTk(m) == m[1] = "targetingKey"
    IN  [a EXCEPT !.context =
            IF a.context.def THEN Some(SelectSeq(a.context.v, IsTk))
            ELSE Undefined,
                  !.timeoutMs = Undefined]

\* OfrepArgsSchema.parse(args) for arguments the schema accepts; timeoutMs
\* is not a key of the schema, and z.object drops the keys it does not know
OfrepArgsSchemaParse(a) ==
    [a EXCEPT !.context =
        IF a.context.def THEN Some(ZodContext(a.context.v)) ELSE Undefined,
              !.timeoutMs = Undefined]

NoArgs ==
    [base_url |-> Undefined, flag_key |-> Undefined, context |-> Undefined,
     etag |-> Undefined, auth |-> NoAuth, timeoutMs |-> Undefined]

----------------------------------------------------------------------------
(* encodeURIComponent over UTF-16 code units.  A token is a run of         *)
(* unreserved characters, a reserved character, or one surrogate code unit.*)

HighSurrogate == "\\uD83D"
LowSurrogate == "\\uDE00"

RECURSIVE URIMalformed(_)

\* encodeURIComponent throws URIError: some surrogate has no partner
URIMalformed(str) ==
    IF str = <<>> THEN FALSE
    ELSE IF Head(str) = LowSurrogate THEN TRUE
    ELSE IF Head(str) = HighSurrogate
    THEN IF Len(str) >= 2 /\ str[2] = LowSurrogate
         THEN URIMalformed(Tail(Tail(str)))
         ELSE TRUE
    ELSE URIMalformed(Tail(str))

RECURSIVE encodeURIComponent(_)

encodeURIComponent(str) ==
    IF str = <<>> THEN <<>>
    ELSE IF Head(str) = HighSurrogate
    THEN <<"%F0%9F%98%80">> \o encodeURIComponent(Tail(Tail(str)))
    ELSE IF Head(str) = "/"
    THEN <<"%2F">> \o encodeURIComponent(Tail(str))
    ELSE <<Head(str)>> \o encodeURIComponent(Tail(str))

----------------------------------------------------------------------------
(* callOfrepApi, up to the fetch call: the request it builds.              *)

\* cfg.baseUrl.replace(/\/+$/, ""): every trailing "/" is dropped
BaseTrimAll(baseUrl) ==
    LET Slashes == {k \in 0..Len(baseUrl) :
                      \A i \in (Len(baseUrl) - k + 1)..Len(baseUrl) :
                          baseUrl[i] = "/"}
        n == CHOOSE k \in Slashes : \A j \in Slashes : j <= k
    IN  SubSeq(baseUrl, 1, Len(baseUrl) - n)

\* cfg.baseUrl.replace(/\/$/, ""): one trailing "/" is dropped
Base(baseUrl) ==
    IF Len(baseUrl) >= 1 /\ baseUrl[Len(baseUrl)] = "/"
    THEN SubSeq(baseUrl, 1, Len(baseUrl) - 1)
    ELSE baseUrl

\* isSingle without the length test
isSingleAnyString(a) == a.flag_key.def

\* typeof flag_key === "string" && flag_key.length > 0
isSingle(a) == a.flag_key.def /\ Len(a.flag_key.v) > 0

RequestUrl(c, a) ==
    IF isSingle(a)
    THEN Base(c.baseUrl) \o <<"/ofrep/v1/evaluate/flags/">>
         \o encodeURIComponent(a.flag_key.v)
    ELSE Base(c.baseUrl) \o <<"/ofrep/v1/evaluate/flags">>

\* the headers with the API key left out when a bearer token is sent
RequestHeadersExclusive(c, a) ==
    LET h0 == ("content-type" :> <<"application/json">>)
              @@ ("accept" :> <<"application/json">>)
        h1 == IF c.bearerToken # <<>>
              THEN ("authorization" :> (<<"Bearer ">> \o c.bearerToken)) @@ h0
              ELSE IF c.apiKey # <<>>
              THEN ("X-API-Key" :> c.apiKey) @@ h0
              ELSE h0
    IN  IF ~isSingle(a) /\ Truthy(a.etag)
        THEN ("If-None-Match" :> a.etag.v) @@ h1
        ELSE h1

\* the headers with If-None-Match set in both modes
RequestHeadersEtagAlways(c, a) ==
    LET h0 == ("content-type" :> <<"application/json">>)
              @@ ("accept" :> <<"application/json">>)
        h1 == IF c.bearerToken # <<>>
              THEN ("authorization" :> (<<"Bearer ">> \o c.bearerToken)) @@ h0
              ELSE h0
        h2 == IF c.apiKey # <<>>
              THEN ("X-API-Key" :> c.apiKey) @@ h1
              ELSE h1
    IN  IF Truthy(a.etag)
        THEN ("If-None-Match" :> a.etag.v) @@ h2
        ELSE h2

\* the headers record; a header that is not set is not in the domain
RequestHeaders(c, a) ==
    LET h0 == ("content-type" :> <<"application/json">>)
              @@ ("accept" :> <<"application/json">>)
        h1 == IF c.bearerToken # <<>>
              THEN ("authorization" :> (<<"Bearer ">> \o c.bearerToken)) @@ h0
              ELSE h0
        h2 == IF c.apiKey # <<>>
              THEN ("X-API-Key" :> c.apiKey) @@ h1
              ELSE h1
    IN  IF ~isSingle(a) /\ Truthy(a.etag)
        THEN ("If-None-Match" :> a.etag.v) @@ h2
        ELSE h2

\* JSON.stringify({ context: parsed.context ?? {} })
RequestBody(a) ==
    JSONStringify(JObj(<<
        <<"context", JObj(Coalesce(a.context, Some(<<>>)).v)>> >>))

NoRequest == [url |-> <<>>, method |-> "", headers |-> <<>>, body |-> <<>>]

BuildRequest(c, a) ==
    [url |-> RequestUrl(c, a), method |-> "POST",
     headers |-> RequestHeaders(c, a), body |-> RequestBody(a)]

----------------------------------------------------------------------------
(* What the remote service can answer, and callOfrepApi after the fetch.   *)

BodyFlag ==
    [text |-> <<"{\"value\":true}">>, parses |-> TRUE,
     value |-> JObj(<< <<"value", JTrue>> >>)]
BodyNotFound ==
    [text |-> <<"{\"errorCode\":\"FLAG_NOT_FOUND\"}">>, parses |-> TRUE,
     value |-> JObj(<< <<"errorCode", JStr(<<"FLAG_NOT_FOUND">>)>> >>)]
BodyEmptyObject ==
    [text |-> <<"{}">>, parses |-> TRUE, value |-> JObj(<<>>)]
BodyNumber == [text |-> <<"42">>, parses |-> TRUE, value |-> JNum(42)]
BodyHtml == [text |-> <<"<html>Bad Gateway</html>">>, parses |-> FALSE,
             value |-> JUndef]
BodyEmpty == [text |-> <<>>, parses |-> FALSE, value |-> JUndef]

Bodies ==
    {BodyFlag, BodyNotFound, BodyEmptyObject, BodyNumber, BodyHtml, BodyEmpty}

ContentTypes ==
    {Undefined, Some(<<"application/json">>),
     Some(<<"application/json", "; charset=utf-8">>), Some(<<"text/plain">>)}

\* contentType.includes("application/json")
IncludesJson(ct) == \E i \in 1..Len(ct) : ct[i] = "application/json"

Statuses == {200, 201, 304, 404}

NoResponse ==
    [kind |-> "none", status |-> 0, etag |-> Undefined,
     contentType |-> Undefined, body |-> BodyEmpty, bodyFails |-> FALSE,
     message |-> <<>>]

\* fetch rejected: connection refused, DNS failure, abort
Rejections ==
    {[NoResponse EXCEPT !.kind = "reject", !.message = <<"Connection refused">>]}

\* fetch resolved with a response whose body can be read
Answers ==
    [kind : {"response"}, status : Statuses,
     etag : {Undefined, Some(<<"W/", "v2">>)},
     contentType : ContentTypes, body : Bodies, bodyFails : {FALSE},
     message : {<<>>}]

\* fetch resolved, and the connection breaks while the body is read
BrokenAnswers ==
    [kind : {"response"}, status : {200, 404}, etag : {Undefined},
     contentType : {Some(<<"application/json">>), Some(<<"text/plain">>)},
     body : {BodyFlag}, bodyFails : {TRUE}, message : {<<"terminated">>}]

Responses == Rejections \cup Answers \cup BrokenAnswers

\* response.ok
Ok(r) == r.status >= 200 /\ r.status <= 299

\* the catch of callOfrepApi that reports String(err) for every failure
ErrorResultString(message) ==
    [text |-> jsonStringifySafe(JObj(<<
                  <<"error", JStr(<<"Error: ">> \o message)>> >>)),
     bodyReads |-> 0]

ErrorResult(message) ==
    [text |-> jsonStringifySafe(JObj(<< <<"error", JStr(message)>> >>)),
     bodyReads |-> 0]

\* the data read from the body: response.json() with its catch, or
\* response.text(); [threw, data]
ReadData(r) ==
    IF IncludesJson(Coalesce(r.contentType, Some(<<>>)).v)
    THEN [threw |-> FALSE,
          data |-> IF r.bodyFails \/ ~r.body.parses THEN JUndef ELSE r.body.value]
    ELSE IF r.bodyFails
    THEN [threw |-> TRUE, data |-> JUndef]
    ELSE [threw |-> FALSE, data |-> JStr(r.body.text)]

\* hasData of the error branch
hasData(data) ==
    \/ data.t = "str" /\ Len(data.s) > 0
    \/ data.t = "obj" /\ Len(data.o) > 0

\* callOfrepApi that falls back to the caller's etag when the response
\* carries none
HandleResponseCallerEtag(a, r) ==
    IF r.kind = "reject"
    THEN ErrorResult(r.message)
    ELSE IF r.status = 304
    THEN [text |-> jsonStringifySafe(JObj(<<
                     <<"status", JNum(304)>>,
                     <<"etag", JOpt(r.etag)>>,
                     <<"message", JStr(<<"Bulk evaluation not modified">>)>> >>)),
          bodyReads |-> 0]
    ELSE LET rd == ReadData(r)
         IN  IF rd.threw
             THEN [ErrorResult(r.message) EXCEPT !.bodyReads = 1]
             ELSE IF ~Ok(r)
             THEN [text |-> jsonStringifySafe(JObj(<<
                       <<"status", JNum(r.status)>>,
                       <<"error", IF hasData(rd.data) THEN rd.data
                                  ELSE JStr(<<>>)>> >>)),
                   bodyReads |-> IF hasData(rd.data) THEN 1 ELSE 2]
             ELSE [text |-> jsonStringifySafe(
                       IF isSingle(a)
                       THEN JObj(<< <<"status", JNum(200)>>,
                                    <<"data", rd.data>> >>)
                       ELSE JObj(<< <<"status", JNum(200)>>,
                                    <<"etag", JOpt(Coalesce(r.etag, a.etag))>>,
                                    <<"data", rd.data>> >>)),
                   bodyReads |-> 1]

\* callOfrepApi from the settling of the fetch promise to its return:
\* [text, bodyReads]
HandleResponse(a, r) ==
    IF r.kind = "reject"
    THEN ErrorResult(r.message)
    ELSE IF r.status = 304
    THEN [text |-> jsonStringifySafe(JObj(<<
                     <<"status", JNum(304)>>,
                     <<"etag", JOpt(r.etag)>>,
                     <<"message", JStr(<<"Bulk evaluation not modified">>)>> >>)),
          bodyReads |-> 0]
    ELSE LET rd == ReadData(r)
         IN  IF rd.threw
             THEN [ErrorResult(r.message) EXCEPT !.bodyReads = 1]
             ELSE IF ~Ok(r)
             THEN \* the body is already used: the second response.text()
                  \* rejects and its catch gives ""
                  [text |-> jsonStringifySafe(JObj(<<
                       <<"status", JNum(r.status)>>,
                       <<"error", IF hasData(rd.data) THEN rd.data
                                  ELSE JStr(<<>>)>> >>)),
                   bodyReads |-> IF hasData(rd.data) THEN 1 ELSE 2]
             ELSE [text |-> jsonStringifySafe(
                       IF isSingle(a)
                       THEN JObj(<< <<"status", JNum(200)>>,
                                    <<"data", rd.data>> >>)
                       ELSE JObj(<< <<"status", JNum(200)>>,
                                    <<"etag", JOpt(r.etag)>>,
                                    <<"data", rd.data>> >>)),
                   bodyReads |-> 1]

MissingBaseUrlText ==
    <<"Missing base_url configuration. Provide base_url in args, set OPENFEATURE_OFREP_BASE_URL, or configure ~/.openfeature-mcp.json.">>

----------------------------------------------------------------------------
(* The install tool (install_openfeature_sdk, installTools.ts:13-72): the  *)
(* bundled guide texts, the provider documentation table and the handler.  *)

\* the guides of the bundle
INSTALL_GUIDES ==
    {"android", "dotnet", "go", "ios", "java", "javascript", "nestjs",
     "nodejs", "php", "python", "react", "ruby"}

\* the text of a guide file: its heading line and what follows it
GuideText(title) ==
    <<"# OpenFeature ", title, " SDK Installation Prompt", "\n\n",
      "You are helping to install and configure the OpenFeature ", title,
      " SDK", "\n">>

\* the guide files of the repository
PromptFiles ==
    [android |-> GuideText("Android (Kotlin)"), dotnet |-> GuideText(".NET"),
     go |-> GuideText("Go"), ios |-> GuideText("iOS"),
     javascript |-> GuideText("Web"), nestjs |-> GuideText("NestJS"),
     nodejs |-> GuideText("Node.js"), php |-> GuideText("PHP"),
     react |-> GuideText("React"), ruby |-> GuideText("Ruby")]

\* the delimiters of the providers region of a guide text
MarkerStart == "<!-- PROVIDERS:START -->"
MarkerEnd == "<!-- PROVIDERS:END -->"

\* the guides whose files are generated elsewhere: one with a providers
\* region in its text, one without
GeneratedPrompts ==
    [java |-> GuideText("Java")
              \o <<MarkerStart, "\n", "No provider selected: use the InMemoryProvider", "\n",
                   MarkerEnd, "\n", "## Installation Steps", "\n">>,
     python |-> GuideText("Python")]

BUNDLED_PROMPTS == PromptFiles @@ GeneratedPrompts

\* the providers of the bundle; "acme" below is none of them
PROVIDERS == {"devcycle", "flagd", "launchdarkly"}

\* the documentation table: provider -> guide -> URL, "" where the provider
\* has no page for the guide
PROVIDER_DOCS ==
    [pr \in PROVIDERS |->
        [g \in INSTALL_GUIDES |->
            IF \/ pr = "flagd" /\ g \in {"ios", "android"}
               \/ pr = "launchdarkly" /\ g = "nestjs"
            THEN <<>>
            ELSE <<"https://openfeature.dev/providers/", pr, "/", g>>]]

\* providersSchema: an array of provider names
providersSchema(ps) == \A i \in 1..Len(ps) : ps[i] \in PROVIDERS

\* InstallGuideSchema: one of the guides
InstallGuideSchema(g) == g \in INSTALL_GUIDES

\* the arguments schema with guide declared as any string
InstallGuideArgsSchemaAnyGuide(a) ==
    a.providers.def => providersSchema(a.providers.v)

\* InstallGuideArgsSchema accepts the arguments
InstallGuideArgsSchema(a) ==
    /\ InstallGuideSchema(a.guide)
    /\ a.providers.def => providersSchema(a.providers.v)

\* the note that takes the link form whether or not there is a URL
providerNoteAlwaysLink(providerName, guide) ==
    LET providerDocLinks == tables.docs[providerName]
        perGuideUrl == IF guide \in DOMAIN providerDocLinks
                       THEN providerDocLinks[guide] ELSE <<>>
    IN  <<"- **", providerName,
          "**: Fetch the provider installation instructions from this link: ">>
        \o perGuideUrl
        \o <<". Follow the documentation to install and configure this provider alongside the OpenFeature ",
             guide, " SDK.">>

\* the note the loop pushes for one provider
providerNote(providerName, guide) ==
    LET providerDocLinks == tables.docs[providerName]
        \* providerDocLinks[guide] || ""
        perGuideUrl == IF guide \in DOMAIN providerDocLinks
                       THEN providerDocLinks[guide] ELSE <<>>
    IN  IF perGuideUrl # <<>>
        THEN <<"- **", providerName,
               "**: Fetch the provider installation instructions from this link: ">>
             \o perGuideUrl
             \o <<". Follow the documentation to install and configure this provider alongside the OpenFeature ",
                  guide, " SDK.">>
        ELSE <<"- **", providerName, "**: No specific ", guide,
               " documentation URL found. Search for \"", providerName,
               " OpenFeature ", guide,
               "\" installation documentation and provide installation instructions if available.">>

\* the notes pushed to the front of the list instead of its end
RECURSIVE providerNotesUnshift(_, _)
providerNotesUnshift(providers, guide) ==
    IF providers = <<>> THEN <<>>
    ELSE IF Len(providers) = 1 THEN providerNote(providers[1], guide)
    ELSE providerNotesUnshift(Tail(providers), guide) \o <<"\n">>
         \o providerNote(providers[1], guide)

\* providerNotes.join("\n") after the loop over providers
RECURSIVE providerNotes(_, _)
providerNotes(providers, guide) ==
    IF providers = <<>> THEN <<>>
    ELSE IF Len(providers) = 1 THEN providerNote(providers[1], guide)
    ELSE providerNote(providers[1], guide) \o <<"\n">>
         \o providerNotes(Tail(providers), guide)

HorizontalRule == "\n\n---\n\n"

providersAppendix(providers, guide) ==
    IF Len(providers) > 0
    THEN <<HorizontalRule, "Provider installation instructions for ", guide,
           ":\n\n">> \o providerNotes(providers, guide)
    ELSE <<>>

NoInstallArgs == [guide |-> "", providers |-> Undefined]

\* the handler registered by registerInstallTools, from the parse of its
\* arguments to its return or throw: [kind, text, error]
installHandler(a) ==
    IF ~InstallGuideArgsSchema(a)
    THEN [kind |-> "threw", text |-> <<>>, error |-> "ZodError"]
    ELSE LET guide == a.guide
             \* .optional().default([])
             providers == IF a.providers.def THEN a.providers.v ELSE <<>>
             \* the template literal renders a missing entry as "undefined"
             prompt == IF guide \in DOMAIN tables.prompts
                       THEN tables.prompts[guide] ELSE <<"undefined">>
         IN  IF \E i \in 1..Len(providers) :
                    providers[i] \notin DOMAIN tables.docs
             THEN [kind |-> "threw", text |-> <<>>, error |-> "Error"]
             ELSE [kind |-> "returned",
                   text |-> prompt \o providersAppendix(providers, guide),
                   error |-> ""]

----------------------------------------------------------------------------
(* The adapters that register a tool with the MCP server: the one of the   *)
(* stdio server (server.ts) and the one of the worker (index.ts).  A tool  *)
(* result {content: [{type: "text", text}]} is given by its text.          *)

\* the messages of the errors the handlers throw
ErrorMessages ==
    [ZodError |-> <<"[{\"code\":\"invalid_type\", ...}]">>,
     URIError |-> <<"URI malformed">>,
     FileError |-> <<"Unexpected token in JSON">>,
     Error |-> <<"Provider is not recognized. Available providers: ",
                 "devcycle, flagd, launchdarkly">>]

NoReply == [kind |-> "none", text |-> <<>>]

NoReplies == [ofrep |-> NoReply, install |-> NoReply]

\* handleToolError: the text result made of a caught error
handleToolError(error, toolName) ==
    LET errorMessage == IF error \in DOMAIN ErrorMessages
                        THEN ErrorMessages[error]
                        ELSE <<"Unknown error occurred">>
    IN  [kind |-> "result",
         text |-> <<"Error in ", toolName, ": ">> \o errorMessage]

\* toolHandler of createServer, from the settling of the handler's promise
toolHandler(name, out) ==
    IF out.kind = "returned"
    THEN [kind |-> "result", text |-> out.text]
    ELSE handleToolError(out.error, name)

\* JSON.stringify of a string, without its quotes: the tokens with a line
\* break or a quotation mark in them are escaped
EscapeToken(t) ==
    CASE t = "\n" -> "\\n"
      [] t = "\n\n" -> "\\n\\n"
      [] t = ":\n\n" -> ":\\n\\n"
      [] t = "\n\n---\n\n" -> "\\n\\n---\\n\\n"
      [] t = " documentation URL found. Search for \""
             -> " documentation URL found. Search for \\\""
      [] t = "\" installation documentation and provide installation instructions if available."
             -> "\\\" installation documentation and provide installation instructions if available."
      [] OTHER -> t

Escape(str) == [i \in 1..Len(str) |-> EscapeToken(str[i])]

\* the callback the worker's adapter registers, from the settling of the
\* handler's promise: the handler's result inside JSON.stringify(result,
\* null, 2), as the text of a new result
workerToolHandler(name, out) ==
    IF out.kind = "returned"
    THEN [kind |-> "result",
          text |-> <<"{\n  \"content\": [\n    {\n      \"type\": \"text\",\n      \"text\": \"">>
                   \o Escape(out.text) \o <<"\"\n    }\n  ]\n}">>]
    ELSE handleToolError(out.error, name)

Adapters == {"stdio", "worker"}

----------------------------------------------------------------------------
(* The state machine.  An invocation of the handler registered by          *)
(* registerOfrepTools runs in three steps, split at its awaits: Invoke     *)
(* (schema parse, environment reads, start of the file read), ReadConfig   *)
(* (end of the file read, resolveConfig, request construction, fetch) and  *)
(* Respond (the fetch promise settles, callOfrepApi returns).              *)

Procs == {"p1", "p2"}

\* the invocations that run in the sequential specifications
SeqProcs == {"p1"}

NoOutcome == [kind |-> "none", text |-> <<>>, error |-> ""]
Returned(text) == [kind |-> "returned", text |-> text, error |-> ""]
Threw(error) == [kind |-> "threw", text |-> <<>>, error |-> error]

\* no call of install_openfeature_sdk is under way
NoInstall == [pc |-> "idle", args |-> NoInstallArgs, outcome |-> NoOutcome]

\* the process started by startServer, no exception logged so far
Running == [up |-> TRUE, cause |-> "none", faults |-> 0]

NoEnv == [n \in EnvNames |-> Undefined]

MissingFile == [kind |-> "missing", OFREP |-> NoSection]

Init ==
    /\ env = NoEnv
    /\ file = MissingFile
    /\ pc = [p \in Procs |-> "idle"]
    /\ args = [p \in Procs |-> NoArgs]
    /\ parsed = [p \in Procs |-> NoArgs]
    /\ envRead = [p \in Procs |-> NoEnvRead]
    /\ cfg = [p \in Procs |-> NullCfg]
    /\ request = [p \in Procs |-> NoRequest]
    /\ fetchCalls = [p \in Procs |-> 0]
    /\ response = [p \in Procs |-> NoResponse]
    /\ bodyReads = [p \in Procs |-> 0]
    /\ outcome = [p \in Procs |-> NoOutcome]
    /\ elapsed = [p \in Procs |-> FALSE]
    /\ install = [p \in Procs |-> NoInstall]
    /\ tables = [prompts |-> BUNDLED_PROMPTS, docs |-> PROVIDER_DOCS]
    /\ reply = [p \in Procs |-> NoReplies]
    /\ process = Running

AllIdle == \A p \in Procs : pc[p] = "idle"

\* the environment of the process changes between invocations
SetEnv(n, v) ==
    /\ process.up
    /\ AllIdle
    /\ env[n] # v
    /\ env' = [env EXCEPT ![n] = v]
    /\ Cardinality({m \in EnvNames : env'[m].def}) <= MaxEnvSet
    /\ UNCHANGED <<file, pc, args, parsed, envRead, cfg, request, fetchCalls,
                   response, bodyReads, outcome, elapsed, install, tables, reply,
                   process>>

\* the config file changes between invocations
WriteFile(f) ==
    /\ AllIdle
    /\ file # f
    /\ file' = f
    /\ UNCHANGED <<env, pc, args, parsed, envRead, cfg, request, fetchCalls,
                   response, bodyReads, outcome, elapsed, install, tables, reply,
                   process>>

\* the handler of a module that read the environment once, when it was
\* loaded, and resolves every call from those values
InvokeStartupEnv(p, a) ==
    /\ process.up
    /\ pc[p] = "idle"
    /\ args' = [args EXCEPT ![p] = a]
    /\ IF ArgsValid(a)
       THEN /\ parsed' = [parsed EXCEPT ![p] = OfrepArgsSchemaParse(a)]
            /\ envRead' = [envRead EXCEPT ![p] = ReadEnv(NoEnv)]
            /\ pc' = [pc EXCEPT ![p] = "readingConfig"]
            /\ UNCHANGED outcome
       ELSE /\ outcome' = [outcome EXCEPT ![p] = Threw("ZodError")]
            /\ pc' = [pc EXCEPT ![p] = "done"]
            /\ UNCHANGED <<parsed, envRead>>
    /\ UNCHANGED <<env, file, cfg, request, fetchCalls, response, bodyReads,
                   elapsed, install, tables, reply, process>>

\* the handler is called: OfrepArgsSchema.parse, then resolveConfig up to
\* its await of readConfigFromFile
Invoke(p, a) ==
    /\ process.up
    /\ pc[p] = "idle"
    /\ args' = [args EXCEPT ![p] = a]
    /\ IF ArgsValid(a)
       THEN /\ parsed' = [parsed EXCEPT ![p] = OfrepArgsSchemaParse(a)]
            /\ envRead' = [envRead EXCEPT ![p] = ReadEnv(env)]
            /\ pc' = [pc EXCEPT ![p] = "readingConfig"]
            /\ UNCHANGED outcome
       ELSE /\ outcome' = [outcome EXCEPT ![p] = Threw("ZodError")]
            /\ pc' = [pc EXCEPT ![p] = "done"]
            /\ UNCHANGED <<parsed, envRead>>
    /\ UNCHANGED <<env, file, cfg, request, fetchCalls, response, bodyReads,
                   elapsed, install, tables, reply, process>>

\* the handler that keeps the parsed arguments in a variable of the module:
\* an invocation that is past its parse while p awaits the file has
\* overwritten them, and p builds its request from those
ReadConfigSharedArgs(p) ==
    /\ process.up
    /\ pc[p] = "readingConfig"
    /\ LET others == {q \in Procs \ {p} : pc[q] \in {"readingConfig", "fetching"}}
           shared == IF others = {} THEN parsed[p]
                     ELSE parsed[CHOOSE q \in others : TRUE]
           fileCfg == readConfigFromFile(file)
           c == resolveConfig(shared, envRead[p], fileCfg)
       IN  IF fileCfg.threw
           THEN /\ outcome' = [outcome EXCEPT ![p] = Threw("FileError")]
                /\ pc' = [pc EXCEPT ![p] = "done"]
                /\ UNCHANGED <<cfg, request, fetchCalls>>
           ELSE /\ cfg' = [cfg EXCEPT ![p] = c]
                /\ IF c.null
                   THEN /\ outcome' = [outcome EXCEPT
                                         ![p] = Returned(MissingBaseUrlText)]
                        /\ pc' = [pc EXCEPT ![p] = "done"]
                        /\ UNCHANGED <<request, fetchCalls>>
                   ELSE IF isSingle(shared) /\ URIMalformed(shared.flag_key.v)
                   THEN /\ outcome' = [outcome EXCEPT ![p] = Threw("URIError")]
                        /\ pc' = [pc EXCEPT ![p] = "done"]
                        /\ UNCHANGED <<request, fetchCalls>>
                   ELSE /\ request' = [request EXCEPT
                                         ![p] = BuildRequest(c, shared)]
                        /\ fetchCalls' = [fetchCalls EXCEPT ![p] = @ + 1]
                        /\ pc' = [pc EXCEPT ![p] = "fetching"]
                        /\ UNCHANGED outcome
    /\ UNCHANGED <<env, file, args, parsed, envRead, response, bodyReads,
                   elapsed, install, tables, reply, process>>

\* the file read ends: the rest of resolveConfig, the missing-configuration
\* return of the handler, and callOfrepApi up to its await of fetch
ReadConfig(p) ==
    /\ process.up
    /\ pc[p] = "readingConfig"
    /\ LET fileCfg == readConfigFromFile(file)
           c == resolveConfig(parsed[p], envRead[p], fileCfg)
       IN  IF fileCfg.threw
           THEN /\ outcome' = [outcome EXCEPT ![p] = Threw("FileError")]
                /\ pc' = [pc EXCEPT ![p] = "done"]
                /\ UNCHANGED <<cfg, request, fetchCalls>>
           ELSE /\ cfg' = [cfg EXCEPT ![p] = c]
                /\ IF c.null
                   THEN /\ outcome' = [outcome EXCEPT
                                         ![p] = Returned(MissingBaseUrlText)]
                        /\ pc' = [pc EXCEPT ![p] = "done"]
                        /\ UNCHANGED <<request, fetchCalls>>
                   ELSE IF isSingle(parsed[p])
                           /\ URIMalformed(parsed[p].flag_key.v)
                   THEN /\ outcome' = [outcome EXCEPT ![p] = Threw("URIError")]
                        /\ pc' = [pc EXCEPT ![p] = "done"]
                        /\ UNCHANGED <<request, fetchCalls>>
                   ELSE /\ request' = [request EXCEPT
                                         ![p] = BuildRequest(c, parsed[p])]
                        /\ fetchCalls' = [fetchCalls EXCEPT ![p] = @ + 1]
                        /\ pc' = [pc EXCEPT ![p] = "fetching"]
                        /\ UNCHANGED outcome
    /\ UNCHANGED <<env, file, args, parsed, envRead, response, bodyReads,
                   elapsed, install, tables, reply, process>>

\* callOfrepApi that calls fetch once more when the first call is rejected
RespondRetry(p, r) ==
    /\ process.up
    /\ pc[p] = "fetching"
    /\ IF r.kind = "reject" /\ fetchCalls[p] < 2
       THEN /\ fetchCalls' = [fetchCalls EXCEPT ![p] = @ + 1]
            /\ UNCHANGED <<pc, response, outcome, bodyReads>>
       ELSE /\ response' = [response EXCEPT ![p] = r]
            /\ LET h == HandleResponse(parsed[p], r)
               IN  /\ outcome' = [outcome EXCEPT ![p] = Returned(h.text)]
                   /\ bodyReads' = [bodyReads EXCEPT ![p] = h.bodyReads]
            /\ pc' = [pc EXCEPT ![p] = "done"]
            /\ UNCHANGED fetchCalls
    /\ UNCHANGED <<env, file, args, parsed, envRead, cfg, request, elapsed,
                   install, tables, reply, process>>

\* the fetch promise settles with r: the rest of callOfrepApi
Respond(p, r) ==
    /\ process.up
    /\ pc[p] = "fetching"
    /\ response' = [response EXCEPT ![p] = r]
    /\ LET h == HandleResponse(parsed[p], r)
       IN  /\ outcome' = [outcome EXCEPT ![p] = Returned(h.text)]
           /\ bodyReads' = [bodyReads EXCEPT ![p] = h.bodyReads]
    /\ pc' = [pc EXCEPT ![p] = "done"]
    /\ UNCHANGED <<env, file, args, parsed, envRead, cfg, request, fetchCalls,
                   elapsed, install, tables, reply, process>>

\* the promise of the handler has settled: the await of toolHandler ends
\* and toolHandler returns
Deliver(p) ==
    /\ process.up
    /\ pc[p] = "done"
    /\ reply[p].ofrep.kind = "none"
    /\ reply' = [reply EXCEPT
                    ![p].ofrep = toolHandler("ofrep_flag_eval", outcome[p])]
    /\ UNCHANGED <<env, file, pc, args, parsed, envRead, cfg, request,
                   fetchCalls, response, bodyReads, outcome, elapsed, install,
                   tables, process>>

\* the server has the adapter's result; the invocation's locals are gone
Return(p) ==
    /\ process.up
    /\ pc[p] = "done"
    /\ reply[p].ofrep.kind # "none"
    /\ reply' = [reply EXCEPT ![p].ofrep = NoReply]
    /\ pc' = [pc EXCEPT ![p] = "idle"]
    /\ args' = [args EXCEPT ![p] = NoArgs]
    /\ parsed' = [parsed EXCEPT ![p] = NoArgs]
    /\ envRead' = [envRead EXCEPT ![p] = NoEnvRead]
    /\ cfg' = [cfg EXCEPT ![p] = NullCfg]
    /\ request' = [request EXCEPT ![p] = NoRequest]
    /\ fetchCalls' = [fetchCalls EXCEPT ![p] = 0]
    /\ response' = [response EXCEPT ![p] = NoResponse]
    /\ bodyReads' = [bodyReads EXCEPT ![p] = 0]
    /\ outcome' = [outcome EXCEPT ![p] = NoOutcome]
    /\ elapsed' = [elapsed EXCEPT ![p] = FALSE]
    /\ UNCHANGED <<env, file, install, tables, process>>

\* the handler that keeps the text it built as the guide's prompt
InstallInvokeWriteBack(p, a) ==
    /\ process.up
    /\ install[p].pc = "idle"
    /\ LET out == installHandler(a)
       IN  /\ install' = [install EXCEPT
                             ![p] = [pc |-> "done", args |-> a,
                                     outcome |-> out]]
           /\ tables' = IF out.kind = "returned"
                           /\ a.guide \in DOMAIN tables.prompts
                        THEN [tables EXCEPT !.prompts[a.guide] = out.text]
                        ELSE tables
    /\ UNCHANGED <<env, file, pc, args, parsed, envRead, cfg, request,
                   fetchCalls, response, bodyReads, outcome, elapsed, reply,
                   process>>

\* install_openfeature_sdk is called with a: the handler has no await and
\* runs to its return or throw
InstallInvoke(p, a) ==
    /\ process.up
    /\ install[p].pc = "idle"
    /\ install' = [install EXCEPT
                      ![p] = [pc |-> "done", args |-> a,
                              outcome |-> installHandler(a)]]
    /\ UNCHANGED <<env, file, pc, args, parsed, envRead, cfg, request,
                   fetchCalls, response, bodyReads, outcome, elapsed,
                   tables, reply, process>>

\* the promise of the install handler has settled: the adapter the tool was
\* registered with returns
InstallDeliver(p, adapter) ==
    /\ process.up
    /\ install[p].pc = "done"
    /\ reply[p].install.kind = "none"
    /\ reply' = [reply EXCEPT
                    ![p].install =
                        IF adapter = "worker"
                        THEN workerToolHandler("install_openfeature_sdk",
                                               install[p].outcome)
                        ELSE toolHandler("install_openfeature_sdk",
                                         install[p].outcome)]
    /\ UNCHANGED <<env, file, pc, args, parsed, envRead, cfg, request,
                   fetchCalls, response, bodyReads, outcome, elapsed, install,
                   tables, process>>

\* the server has the adapter's result of the install call
InstallReturn(p) ==
    /\ process.up
    /\ install[p].pc = "done"
    /\ reply[p].install.kind # "none"
    /\ install' = [install EXCEPT ![p] = NoInstall]
    /\ reply' = [reply EXCEPT ![p].install = NoReply]
    /\ UNCHANGED <<env, file, pc, args, parsed, envRead, cfg, request,
                   fetchCalls, response, bodyReads, outcome, elapsed,
                   tables, process>>

\* the most exceptions and rejections logged by one process
MaxFaults == 2

\* the handler of SIGINT and of SIGTERM: process.exit(0)
Signal(sig) ==
    /\ process.up
    /\ process' = [process EXCEPT !.up = FALSE, !.cause = sig]
    /\ UNCHANGED <<env, file, pc, args, parsed, envRead, cfg, request,
                   fetchCalls, response, bodyReads, outcome, elapsed, install,
                   tables, reply>>

\* transport.onclose: process.exit(0)
TransportClose ==
    /\ process.up
    /\ process' = [process EXCEPT !.up = FALSE, !.cause = "close"]
    /\ UNCHANGED <<env, file, pc, args, parsed, envRead, cfg, request,
                   fetchCalls, response, bodyReads, outcome, elapsed, install,
                   tables, reply>>

\* a process without a listener for the event: Node prints the error and
\* exits
ProcessFaultExits(event) ==
    /\ process.up
    /\ process' = [process EXCEPT !.up = FALSE, !.cause = event]
    /\ UNCHANGED <<env, file, pc, args, parsed, envRead, cfg, request,
                   fetchCalls, response, bodyReads, outcome, elapsed, install,
                   tables, reply>>

\* an exception no one caught, or a rejection no one handled, anywhere in
\* the process: the listeners of startServer log it
ProcessFault(event) ==
    /\ process.up
    /\ process.faults < MaxFaults
    /\ process' = [process EXCEPT !.faults = @ + 1]
    /\ UNCHANGED <<env, file, pc, args, parsed, envRead, cfg, request,
                   fetchCalls, response, bodyReads, outcome, elapsed, install,
                   tables, reply>>

\* the time the caller gave as timeoutMs passes while fetch is pending.  The
\* code starts no timer and hands fetch no abort signal: nothing reacts
Elapse(p) ==
    /\ process.up
    /\ pc[p] = "fetching"
    /\ args[p].timeoutMs.def
    /\ ~elapsed[p]
    /\ elapsed' = [elapsed EXCEPT ![p] = TRUE]
    /\ UNCHANGED <<env, file, pc, args, parsed, envRead, cfg, request,
                   fetchCalls, response, bodyReads, outcome, install, tables, reply,
                   process>>

----------------------------------------------------------------------------
(* Inputs.                                                                 *)

\* the longest flag_key, in tokens
MaxKeyLen == 2

FlagKeyUnits == {"my-feature", "/", HighSurrogate, LowSurrogate}

FlagKeys ==
    {Undefined} \cup
    {Some(k) : k \in UNION {[1..n -> FlagKeyUnits] : n \in 0..MaxKeyLen}}

Contexts ==
    {Undefined, Some(<<>>), Some(<<TargetingKey>>), Some(<<Plan, TargetingKey>>),
     Some(<<TargetingKeyNum>>)}

Etags == {Undefined, Some(<<>>), Some(<<"\"abc123\"">>)}

FullFile ==
    [kind |-> "section",
     OFREP |-> [baseUrl |-> Some(FileBase),
                bearerToken |-> Some(<<"file-token">>),
                token |-> Undefined,
                apiKey |-> Some(<<"file-key">>)]]

\* Spec: every shape of request, few configurations, few answers
RequestArgs ==
    [base_url : {Undefined, Some(ArgBaseSlash), Some(ArgBaseSlash2),
                Some(NotAUrl)},
     flag_key : FlagKeys, context : Contexts, etag : Etags,
     auth : {NoAuth, Auth(Some(<<"args-token">>), Some(<<"args-key">>))},
     timeoutMs : {Undefined}]

RequestResponses ==
    Rejections \cup
    {r \in Answers : /\ r.status \in {200, 304}
                     /\ r.contentType = Some(<<"application/json">>)
                     /\ r.body = BodyFlag
                     /\ r.etag.def}

Next ==
    \E p \in SeqProcs :
        \/ \E a \in RequestArgs : Invoke(p, a)
        \/ ReadConfig(p)
        \/ \E r \in RequestResponses : Respond(p, r)
        \/ Deliver(p)
        \/ Return(p)
        \/ SetEnv("OPENFEATURE_OFREP_BASE_URL", Undefined)
        \/ SetEnv("OPENFEATURE_OFREP_BASE_URL", Some(EnvBaseOF))
        \/ \E f \in {MissingFile, FullFile} : WriteFile(f)

Spec == Init /\ [][Next]_vars

\* SpecConfig: every configuration, few shapes of request, few answers
ConfigArgs ==
    [base_url : {Undefined, Some(ArgBase), Some(<<>>)},
     flag_key : {Some(<<"my-feature">>)}, context : {Undefined},
     etag : {Undefined},
     auth : {NoAuth,
             Auth(Some(<<"args-token">>), Undefined),
             Auth(Undefined, Some(<<"args-key">>)),
             Auth(Some(<<"args-token">>), Some(<<"args-key">>)),
             Auth(Some(<<>>), Undefined)},
     timeoutMs : {Undefined}]

ConfigResponses ==
    Rejections \cup
    {r \in Answers : /\ r.status = 200
                     /\ r.contentType = Some(<<"application/json">>)
                     /\ r.body = BodyFlag
                     /\ ~r.etag.def}

NextConfig ==
    \E p \in SeqProcs :
        \/ \E a \in ConfigArgs : Invoke(p, a)
        \/ ReadConfig(p)
        \/ \E r \in ConfigResponses : Respond(p, r)
        \/ Deliver(p)
        \/ Return(p)
        \/ \E n \in EnvNames :
             \E v \in {Undefined} \cup {Some(x) : x \in EnvValues(n)} :
                SetEnv(n, v)
        \/ \E f \in FileStates : WriteFile(f)

SpecConfig == Init /\ [][NextConfig]_vars

\* SpecResponse: every answer, few shapes of request, few configurations
ResponseArgs ==
    [base_url : {Undefined, Some(ArgBase)},
     flag_key : {Undefined, Some(<<>>), Some(<<"my-feature">>),
                 Some(<<HighSurrogate>>),
                 Some(<<HighSurrogate, LowSurrogate>>)},
     context : {Undefined},
     etag : {Undefined, Some(<<"\"abc123\"">>)},
     auth : {NoAuth}, timeoutMs : {Undefined}]

NextResponse ==
    \E p \in SeqProcs :
        \/ \E a \in ResponseArgs : Invoke(p, a)
        \/ ReadConfig(p)
        \/ \E r \in Responses : Respond(p, r)
        \/ Deliver(p)
        \/ Return(p)
        \/ SetEnv("OFREP_BASE_URL", Undefined)
        \/ SetEnv("OFREP_BASE_URL", Some(EnvBaseLegacy))
        \/ \E f \in {MissingFile, FullFile} : WriteFile(f)

SpecResponse == Init /\ [][NextResponse]_vars

\* SpecTimeout: calls with and without timeoutMs, a remote service that
\* answers late or never
TimeoutArgs ==
    [base_url : {Undefined, Some(ArgBase)},
     flag_key : {Undefined, Some(<<"my-feature">>)},
     context : {Undefined, Some(<<TargetingKey>>)},
     etag : {Undefined}, auth : {NoAuth},
     timeoutMs : {Undefined, Some(<<"5000">>)}]

NextTimeout ==
    \E p \in SeqProcs :
        \/ \E a \in TimeoutArgs : Invoke(p, a)
        \/ ReadConfig(p)
        \/ Elapse(p)
        \/ \E r \in ConfigResponses : Respond(p, r)
        \/ Deliver(p)
        \/ Return(p)
        \/ SetEnv("OPENFEATURE_OFREP_BASE_URL", Undefined)
        \/ SetEnv("OPENFEATURE_OFREP_BASE_URL", Some(EnvBaseOF))
        \/ \E f \in {MissingFile, FullFile} : WriteFile(f)

SpecTimeout == Init /\ [][NextTimeout]_vars

\* the longest providers list
MaxProviders == 3

\* SpecInstall: every guide and every providers list up to MaxProviders,
\* with a guide and a provider the bundle does not have
InstallArgs ==
    [guide : INSTALL_GUIDES \cup {"cobol"},
     providers : {Undefined} \cup
        {Some(ps) : ps \in UNION {[1..n -> PROVIDERS \cup {"acme"}] :
                                     n \in 0..MaxProviders}}]

NextInstall ==
    \E p \in SeqProcs :
        \/ \E a \in InstallArgs : InstallInvoke(p, a)
        \/ \E adapter \in Adapters : InstallDeliver(p, adapter)
        \/ InstallReturn(p)

SpecInstall == Init /\ [][NextInstall]_vars

\* SpecPure: two install calls at a time, each held by its caller while the
\* other invocation makes any number of calls
PureArgs ==
    [guide : {"react", "java", "ios", "cobol"},
     providers : {Undefined, Some(<<>>), Some(<<"devcycle">>),
                  Some(<<"flagd", "devcycle">>), Some(<<"acme">>)}]

NextPure ==
    \E p \in Procs :
        \/ \E a \in PureArgs : InstallInvoke(p, a)
        \/ \E adapter \in Adapters : InstallDeliver(p, adapter)
        \/ InstallReturn(p)

SpecPure == Init /\ [][NextPure]_vars

\* SpecConcurrent: two invocations of the OFREP tool in flight at a time,
\* their steps interleaved in every order
ConcurrentArgs ==
    [base_url : {Undefined, Some(ArgBase), Some(NotAUrl)},
     flag_key : {Undefined, Some(<<"my-feature">>)},
     context : {Undefined},
     etag : {Undefined, Some(<<"\"abc123\"">>)},
     auth : {NoAuth}, timeoutMs : {Undefined}]

ConcurrentResponses ==
    Rejections \cup
    {r \in Answers : /\ r.status \in {200, 304, 404}
                     /\ r.contentType = Some(<<"application/json">>)
                     /\ r.body \in {BodyFlag, BodyNotFound}}

NextConcurrent ==
    \/ \E p \in Procs :
          \/ \E a \in ConcurrentArgs : Invoke(p, a)
          \/ ReadConfig(p)
          \/ \E r \in ConcurrentResponses : Respond(p, r)
          \/ Deliver(p)
          \/ Return(p)
    \/ SetEnv("OPENFEATURE_OFREP_BASE_URL", Undefined)
    \/ SetEnv("OPENFEATURE_OFREP_BASE_URL", Some(EnvBaseOF))
    \/ \E f \in {MissingFile, FullFile} : WriteFile(f)

SpecConcurrent == Init /\ [][NextConcurrent]_vars

\* SpecServer: the stdio server process with both tools, calls that fail in
\* every way, signals, closure of the transport, and exceptions and
\* rejections outside the handlers
ServerArgs ==
    [base_url : {Undefined, Some(ArgBase), Some(NotAUrl)},
     flag_key : {Undefined, Some(<<"my-feature">>), Some(<<HighSurrogate>>)},
     context : {Undefined}, etag : {Undefined}, auth : {NoAuth},
     timeoutMs : {Undefined}]

ServerResponses ==
    Rejections \cup
    {r \in Answers : /\ r.status \in {200, 404}
                     /\ r.contentType = Some(<<"application/json">>)
                     /\ r.body \in {BodyFlag, BodyNotFound}
                     /\ ~r.etag.def}

ServerInstallArgs ==
    [guide : {"react", "cobol"},
     providers : {Undefined, Some(<<"devcycle">>), Some(<<"acme">>)}]

NextServer ==
    \/ \E p \in SeqProcs :
          \/ \E a \in ServerArgs : Invoke(p, a)
          \/ ReadConfig(p)
          \/ \E r \in ServerResponses : Respond(p, r)
          \/ Deliver(p)
          \/ Return(p)
          \/ \E a \in ServerInstallArgs : InstallInvoke(p, a)
          \/ InstallDeliver(p, "stdio")
          \/ InstallReturn(p)
    \/ \E sig \in {"SIGINT", "SIGTERM"} : Signal(sig)
    \/ TransportClose
    \/ \E event \in {"uncaughtException", "unhandledRejection"} :
          ProcessFault(event)

SpecServer == Init /\ [][NextServer]_vars

----------------------------------------------------------------------------
(* Properties.  The sources of an invocation's configuration, read off the *)
(* arguments, the environment and the file rather than off resolveConfig.  *)

\* the resolver has run for p, on arguments the schema accepted
Resolved(p) == pc[p] \in {"fetching", "done"} /\ ArgsValid(args[p])

ArgBearer(p) ==
    IF args[p].auth.def THEN args[p].auth.bearer_token ELSE Undefined

ArgApiKey(p) == IF args[p].auth.def THEN args[p].auth.api_key ELSE Undefined

FileBaseUrl ==
    IF file.kind = "section" THEN file.OFREP.baseUrl ELSE Undefined

\* the flag_key of the call is a non-empty string
KeyGiven(p) == args[p].flag_key.def /\ args[p].flag_key.v # <<>>

NoBaseUrlAnywhere(p) ==
    /\ ~Truthy(args[p].base_url)
    /\ ~Truthy(env["OPENFEATURE_OFREP_BASE_URL"])
    /\ ~Truthy(env["OFREP_BASE_URL"])
    /\ ~Truthy(FileBaseUrl)

\* C1: an invocation for which neither the call argument, nor an
\* environment variable, nor the config file holds a base URL returns the
\* missing-configuration text and never calls fetch.
C1_MissingConfigNoCall ==
    \A p \in Procs :
        (pc[p] # "idle" /\ ArgsValid(args[p]) /\ NoBaseUrlAnywhere(p)) =>
            /\ fetchCalls[p] = 0
            /\ pc[p] # "fetching"
            /\ pc[p] = "done" => outcome[p] = Returned(MissingBaseUrlText)

\* C1 witness: such an invocation has ended, with a bearer token configured
\* but no base URL
C1_Witness ==
    \E p \in Procs :
        /\ pc[p] = "done" /\ ArgsValid(args[p]) /\ NoBaseUrlAnywhere(p)
        /\ env["OPENFEATURE_OFREP_BEARER_TOKEN"] = Some(<<"env-token">>)
        /\ outcome[p] = Returned(MissingBaseUrlText)
        /\ fetchCalls[p] = 0

\* some surrogate code unit of k has no partner
LoneSurrogate(k) ==
    \E i \in 1..Len(k) :
        \/ k[i] = HighSurrogate /\ (i = Len(k) \/ k[i + 1] # LowSurrogate)
        \/ k[i] = LowSurrogate /\ (i = 1 \/ k[i - 1] # HighSurrogate)

\* C2 as stated: an invocation whose configuration resolved has called fetch
\* exactly once when it ends.
C2_ExactlyOneCall ==
    \A p \in Procs :
        (pc[p] = "done" /\ ArgsValid(args[p]) /\ ~cfg[p].null) =>
            fetchCalls[p] = 1

\* C2 amended: no invocation calls fetch twice, and an invocation whose
\* configuration resolved calls it exactly once, whatever the answer, unless
\* its flag_key holds an unpaired surrogate: then the URL cannot be built
\* and the invocation ends with a URIError before any call.
C2_OneCallUnlessKeyMalformed ==
    \A p \in Procs :
        /\ fetchCalls[p] <= 1
        /\ (Resolved(p) /\ ~cfg[p].null) =>
              fetchCalls[p] =
                 IF KeyGiven(p) /\ LoneSurrogate(args[p].flag_key.v)
                 THEN 0 ELSE 1

\* C2 witness: the fetch was rejected and the invocation ended after its
\* one call
C2_Witness ==
    \E p \in Procs :
        /\ pc[p] = "done" /\ response[p].kind = "reject"
        /\ fetchCalls[p] = 1

\* C3: each field comes from the call argument if there is one, else from
\* the OPENFEATURE_OFREP_* variable if it is set, else from the OFREP_*
\* variable if it is set; an empty base URL chosen this way fails the
\* resolution.
C3_Precedence ==
    \A p \in Procs :
        Resolved(p) =>
            LET c == cfg[p]
                EnvChoice(of, legacy) ==
                    IF env[of].def THEN env[of] ELSE env[legacy]
                base == IF args[p].base_url.def THEN args[p].base_url
                        ELSE EnvChoice("OPENFEATURE_OFREP_BASE_URL",
                                       "OFREP_BASE_URL")
                bearer == IF ArgBearer(p).def THEN ArgBearer(p)
                          ELSE EnvChoice("OPENFEATURE_OFREP_BEARER_TOKEN",
                                         "OFREP_BEARER_TOKEN")
                apiKey == IF ArgApiKey(p).def THEN ArgApiKey(p)
                          ELSE EnvChoice("OPENFEATURE_OFREP_API_KEY",
                                         "OFREP_API_KEY")
            IN  /\ base.def =>
                     IF base.v = <<>> THEN c.null
                     ELSE ~c.null /\ c.baseUrl = base.v
                /\ (~c.null /\ bearer.def) => c.bearerToken = bearer.v
                /\ (~c.null /\ apiKey.def) => c.apiKey = apiKey.v

\* C3 witness: no base_url argument, both spellings of the variable set and
\* a file with its own base URL; the OPENFEATURE_OFREP_* value is the one
\* resolved
C3_Witness ==
    \E p \in Procs :
        /\ pc[p] = "fetching" /\ ~args[p].base_url.def
        /\ env["OPENFEATURE_OFREP_BASE_URL"] = Some(EnvBaseOF)
        /\ env["OFREP_BASE_URL"] = Some(EnvBaseLegacy)
        /\ ConfigFileSchema(file) /\ file.OFREP.baseUrl = Some(FileBase)
        /\ cfg[p].baseUrl = EnvBaseOF

\* the non-empty base URL of highest precedence, "" if there is none
HighestNonEmptyBase(p) ==
    IF Truthy(args[p].base_url) THEN args[p].base_url.v
    ELSE IF Truthy(env["OPENFEATURE_OFREP_BASE_URL"])
    THEN env["OPENFEATURE_OFREP_BASE_URL"].v
    ELSE IF Truthy(env["OFREP_BASE_URL"]) THEN env["OFREP_BASE_URL"].v
    ELSE IF Truthy(FileBaseUrl) THEN FileBaseUrl.v
    ELSE <<>>

\* C4: the resolution fails exactly when no source holds a non-empty base
\* URL, and otherwise resolves the non-empty one of highest precedence.
C4_FailsIffNoNonEmptyBase ==
    \A p \in Procs :
        Resolved(p) =>
            /\ cfg[p].null <=> NoBaseUrlAnywhere(p)
            /\ ~NoBaseUrlAnywhere(p) => cfg[p].baseUrl = HighestNonEmptyBase(p)

\* C5: a field with no call argument and no environment variable takes the
\* file's value, whatever else the file holds.
C5_FileFieldUsedPerField ==
    \A p \in Procs :
        (Resolved(p) /\ file.kind = "section") =>
            LET c == cfg[p]
                o == file.OFREP
                NoEnvFor(of, legacy) == ~env[of].def /\ ~env[legacy].def
            IN  /\ ( /\ ~args[p].base_url.def
                     /\ NoEnvFor("OPENFEATURE_OFREP_BASE_URL", "OFREP_BASE_URL")
                     /\ Truthy(o.baseUrl) )
                   => (~c.null /\ c.baseUrl = o.baseUrl.v)
                /\ ( /\ ~c.null /\ ~ArgBearer(p).def
                     /\ NoEnvFor("OPENFEATURE_OFREP_BEARER_TOKEN",
                                 "OFREP_BEARER_TOKEN")
                     /\ o.bearerToken.def )
                   => c.bearerToken = o.bearerToken.v
                /\ ( /\ ~c.null /\ ~ArgApiKey(p).def
                     /\ NoEnvFor("OPENFEATURE_OFREP_API_KEY", "OFREP_API_KEY")
                     /\ o.apiKey.def )
                   => c.apiKey = o.apiKey.v

\* C6: with a file that is missing, unreadable, not JSON or without the
\* OFREP section, the invocation does not end by an exception and resolves
\* what the arguments and the environment alone give.
C6_BadFileIsNoConfig ==
    \A p \in Procs :
        ( /\ pc[p] \in {"fetching", "done"} /\ ArgsValid(args[p])
          /\ file.kind \in {"missing", "unreadable", "invalidJson", "noSection"} )
        =>
            LET c == cfg[p]
                Pick(arg, of, legacy) ==
                    IF arg.def THEN arg
                    ELSE IF env[of].def THEN env[of] ELSE env[legacy]
                base == Pick(args[p].base_url, "OPENFEATURE_OFREP_BASE_URL",
                             "OFREP_BASE_URL")
                bearer == Pick(ArgBearer(p), "OPENFEATURE_OFREP_BEARER_TOKEN",
                               "OFREP_BEARER_TOKEN")
                apiKey == Pick(ArgApiKey(p), "OPENFEATURE_OFREP_API_KEY",
                               "OFREP_API_KEY")
            IN  /\ outcome[p].kind = "threw" => outcome[p].error = "URIError"
                /\ c.null <=> ~Truthy(base)
                /\ ~c.null =>
                     /\ c.baseUrl = base.v
                     /\ c.bearerToken = (IF bearer.def THEN bearer.v ELSE <<>>)
                     /\ c.apiKey = (IF apiKey.def THEN apiKey.v ELSE <<>>)

\* C6 witness: the file is not JSON and the request goes out with the base
\* URL of the environment
C6_Witness ==
    \E p \in Procs :
        /\ pc[p] = "fetching" /\ file.kind = "invalidJson"
        /\ ~args[p].base_url.def
        /\ env["OFREP_BASE_URL"] = Some(EnvBaseLegacy)
        /\ cfg[p].baseUrl = EnvBaseLegacy
        /\ fetchCalls[p] = 1

\* the resolved base URL without its trailing "/"
TrimmedBase(p) ==
    LET b == cfg[p].baseUrl
    IN  IF b # <<>> /\ b[Len(b)] = "/" THEN SubSeq(b, 1, Len(b) - 1) ELSE b

\* C7: the request of an invocation with a non-empty flag_key goes to the
\* single-flag path, which ends with the percent-encoded key; the request of
\* an invocation with no flag_key or an empty one goes to the bulk path.
\* {baseUrl} is the resolved base URL without its trailing "/".
C7_ModeSelectsEndpoint ==
    \A p \in Procs :
        fetchCalls[p] >= 1 =>
            IF KeyGiven(p)
            THEN LET key == encodeURIComponent(args[p].flag_key.v)
                 IN  /\ request[p].url =
                          TrimmedBase(p) \o <<"/ofrep/v1/evaluate/flags/">> \o key
                     /\ \A i \in 1..Len(key) :
                          key[i] \notin {"/", HighSurrogate, LowSurrogate}
            ELSE request[p].url =
                    TrimmedBase(p) \o <<"/ofrep/v1/evaluate/flags">>

\* C7 witness: a request for the key "my-feature/" is out, to the
\* single-flag path with the "/" of the key encoded
C7_Witness ==
    \E p \in Procs :
        /\ fetchCalls[p] = 1
        /\ args[p].flag_key = Some(<<"my-feature", "/">>)
        /\ request[p].url = <<"https://args.example.com",
                              "/ofrep/v1/evaluate/flags/", "my-feature", "%2F">>

\* the orders in which the members of an object can be written
Orderings(members) ==
    {s \in [1..Len(members) -> {members[i] : i \in 1..Len(members)}] :
        \A i \in 1..Len(members) : \E j \in 1..Len(members) : s[j] = members[i]}

\* the JSON texts of {"context": C}
ContextBodies(members) ==
    {<<"{">> \o Quote(<<"context">>) \o <<":">> \o JSONStringify(JObj(m))
        \o <<"}">> : m \in Orderings(members)}

\* C8: every request is a POST with content-type and accept
\* application/json, whose body is the JSON text of {"context": C}, C being
\* the members of the caller's context, or no member when the call has no
\* context.
C8_RequestShape ==
    \A p \in Procs :
        fetchCalls[p] >= 1 =>
            LET h == request[p].headers
                members == IF args[p].context.def THEN args[p].context.v
                           ELSE <<>>
            IN  /\ request[p].method = "POST"
                /\ {"content-type", "accept"} \subseteq DOMAIN h
                /\ h["content-type"] = <<"application/json">>
                /\ h["accept"] = <<"application/json">>
                /\ request[p].body \in ContextBodies(members)

\* C8 witness: a request is out for a context with targetingKey and one more
\* key; its body holds both
C8_Witness ==
    \E p \in Procs :
        /\ fetchCalls[p] = 1
        /\ args[p].context = Some(<<Plan, TargetingKey>>)
        /\ request[p].body =
             <<"{", "\"", "context", "\"", ":", "{",
               "\"", "targetingKey", "\"", ":", "\"", "user-123", "\"", ",",
               "\"", "plan", "\"", ":", "\"", "pro", "\"", "}", "}">>

\* C9 as stated: the request carries If-None-Match, with the caller's etag,
\* exactly when the call is in bulk mode and has an etag.
C9_IfNoneMatchWhenEtagSupplied ==
    \A p \in Procs :
        fetchCalls[p] >= 1 =>
            LET h == request[p].headers
            IN  /\ "If-None-Match" \in DOMAIN h
                      <=> (~KeyGiven(p) /\ args[p].etag.def)
                /\ "If-None-Match" \in DOMAIN h
                      => h["If-None-Match"] = args[p].etag.v

\* C9 amended: the request carries If-None-Match, with the caller's etag,
\* exactly when the call is in bulk mode and has a non-empty etag; an empty
\* etag sets no header, and a single-flag request never carries the header.
C9_IfNoneMatchWhenEtagNonEmpty ==
    \A p \in Procs :
        fetchCalls[p] >= 1 =>
            LET h == request[p].headers
            IN  /\ "If-None-Match" \in DOMAIN h
                      <=> (~KeyGiven(p) /\ args[p].etag.def
                           /\ args[p].etag.v # <<>>)
                /\ "If-None-Match" \in DOMAIN h
                      => h["If-None-Match"] = args[p].etag.v

\* C9 witness: a bulk request is out with the caller's etag, quotes
\* included, in If-None-Match
C9_Witness ==
    \E p \in Procs :
        /\ fetchCalls[p] = 1 /\ ~KeyGiven(p)
        /\ args[p].etag = Some(<<"\"abc123\"">>)
        /\ "If-None-Match" \in DOMAIN request[p].headers
        /\ request[p].headers["If-None-Match"] = <<"\"abc123\"">>

\* the JSON texts of {status: 304, etag, notModified: true}
NotModifiedTexts(etag) ==
    {JSONStringify(JObj(<< <<"status", JNum(304)>>, <<"etag", JOpt(etag)>>,
                           <<"notModified", JTrue>> >>)),
     JSONStringify(JObj(<< <<"status", JNum(304)>>, <<"notModified", JTrue>>,
                           <<"etag", JOpt(etag)>> >>))}

\* C10: a bulk invocation answered with status 304 returns
\* {status: 304, etag: <the ETag of the response, if any>, notModified: true}
\* and has not read the body.
C10_NotModifiedResult ==
    \A p \in Procs :
        ( /\ pc[p] = "done" /\ response[p].kind = "response"
          /\ response[p].status = 304 /\ ~KeyGiven(p) )
        =>
            /\ bodyReads[p] = 0
            /\ outcome[p].kind = "returned"
            /\ outcome[p].text \in NotModifiedTexts(response[p].etag)

----------------------------------------------------------------------------
(* Properties of the result built from the remote's answer.                *)

\* the answer of p has arrived whole: a response whose body could be read
Answered(p) ==
    pc[p] = "done" /\ response[p].kind = "response" /\ ~response[p].bodyFails

\* the body of r as the specification names it: the parsed JSON value when
\* the content type indicates JSON and the text parses, the raw text
\* otherwise
ParsedOrRaw(r) ==
    IF IncludesJson(r.contentType.v) /\ r.contentType.def /\ r.body.parses
    THEN r.body.value
    ELSE JStr(r.body.text)

\* C11: for every answer with a status outside 200..299 other than 304 the
\* result is {status: <code>, error: B}, B being the parsed JSON body when
\* the content type indicates JSON and the raw body text otherwise, for every
\* body: an empty JSON object, an empty string, a body that fails to parse.
C11_ErrorResultCarriesBody ==
    \A p \in Procs :
        (Answered(p) /\ ~Ok(response[p]) /\ response[p].status # 304) =>
            outcome[p] = Returned(JSONStringify(JObj(<<
                <<"status", JNum(response[p].status)>>,
                <<"error", ParsedOrRaw(response[p])>> >>)))

\* the data member of a 2xx result: the parsed body, the raw text when the
\* content type does not indicate JSON, no member when the JSON text does
\* not parse
BodyData(r) ==
    IF r.contentType.def /\ IncludesJson(r.contentType.v)
    THEN IF r.body.parses THEN r.body.value ELSE JUndef
    ELSE JStr(r.body.text)

\* C12: on an answer with a status in 200..299 a single-flag invocation
\* returns {status: 200, data} with no etag member, and a bulk invocation
\* returns {status: 200, etag, data} whose etag is the ETag header of the
\* response when there is one and is absent otherwise; it is never the etag
\* the caller sent.
C12_SuccessResult ==
    \A p \in Procs :
        (Answered(p) /\ Ok(response[p])) =>
            outcome[p] = Returned(JSONStringify(
                IF KeyGiven(p)
                THEN JObj(<< <<"status", JNum(200)>>,
                             <<"data", BodyData(response[p])>> >>)
                ELSE JObj(<< <<"status", JNum(200)>>,
                             <<"etag", JOpt(response[p].etag)>>,
                             <<"data", BodyData(response[p])>> >>)))

\* C12 witness: a bulk invocation that sent an etag of its own got a 2xx
\* answer with another ETag and returned that one; a single-flag invocation
\* got an answer with an ETag and returned none
C12_Witness ==
    \E p \in Procs :
        /\ Answered(p) /\ Ok(response[p]) /\ response[p].etag.def
        /\ args[p].etag.def /\ args[p].etag # response[p].etag
        /\ response[p].body = BodyFlag
        /\ ~KeyGiven(p)
        /\ outcome[p].text = JSONStringify(JObj(<<
               <<"status", JNum(200)>>, <<"etag", JStr(response[p].etag.v)>>,
               <<"data", BodyFlag.value>> >>))

\* the failure that reached the catch of callOfrepApi for p: fetch was
\* rejected, or response.text() was while the body was read
TransportFailure(p) ==
    /\ pc[p] = "done"
    /\ \/ response[p].kind = "reject"
       \/ /\ response[p].kind = "response" /\ response[p].bodyFails
          /\ response[p].status # 304
          /\ ~(response[p].contentType.def
               /\ IncludesJson(response[p].contentType.v))

\* C13: when the network call fails at transport level the invocation
\* returns, and its result is {error: <message of the failure>} and nothing
\* else: no exception leaves the handler.
C13_TransportFailureIsAResult ==
    \A p \in Procs :
        TransportFailure(p) =>
            /\ outcome[p].kind = "returned"
            /\ outcome[p].text =
                   <<"{">> \o Quote(<<"error">>) \o <<":">>
                   \o Quote(response[p].message) \o <<"}">>

\* C13 witness: fetch was rejected with "Connection refused" and the
\* invocation returned that message
C13_Witness ==
    \E p \in Procs :
        /\ pc[p] = "done" /\ response[p].kind = "reject"
        /\ response[p].message = <<"Connection refused">>
        /\ fetchCalls[p] = 1
        /\ outcome[p] = Returned(<<"{", "\"", "error", "\"", ":", "\"",
                                   "Connection refused", "\"", "}">>)

\* C14: when the caller gave a timeout and the remote service has not
\* answered within it, the request is aborted and the invocation ends with
\* a network-failure result: once the time has passed the invocation is no
\* longer waiting for the answer.
C14_AbortedAtTimeout ==
    \A p \in Procs :
        elapsed[p] =>
            /\ pc[p] = "done"
            /\ response[p].kind = "reject"
            /\ outcome[p] = Returned(ErrorResult(response[p].message).text)

\* p has called fetch
Called(p) == pc[p] \in {"fetching", "done"} /\ fetchCalls[p] = 1

\* the value of header name of p's request, Undefined when it is not sent
Header(p, name) ==
    IF name \in DOMAIN request[p].headers
    THEN Some(request[p].headers[name]) ELSE Undefined

\* C15 as stated: the request carries authorization: Bearer {token}
\* whenever a bearer token resolved, and the API-key header only when an API
\* key resolved and no bearer token did: with both, the bearer token is sent
\* and the API key is not.
C15_BearerExcludesApiKey ==
    \A p \in Procs :
        Called(p) =>
            /\ cfg[p].bearerToken # <<>> =>
                 Header(p, "authorization")
                     = Some(<<"Bearer ">> \o cfg[p].bearerToken)
            /\ Header(p, "X-API-Key").def =>
                 (cfg[p].apiKey # <<>> /\ cfg[p].bearerToken = <<>>)

\* C15 amended: authorization: Bearer {token} is sent exactly when a
\* non-empty bearer token resolved and X-API-Key: {key} exactly when a
\* non-empty API key resolved, each whatever the other: when both resolve,
\* both headers are sent.
C15_AuthHeadersIndependent ==
    \A p \in Procs :
        Called(p) =>
            /\ Header(p, "authorization") =
                 IF cfg[p].bearerToken # <<>>
                 THEN Some(<<"Bearer ">> \o cfg[p].bearerToken)
                 ELSE Undefined
            /\ Header(p, "X-API-Key") =
                 IF cfg[p].apiKey # <<>> THEN Some(cfg[p].apiKey)
                 ELSE Undefined

\* C15 witness: a bearer token from the call and an API key from the
\* environment both resolved, and the request carries both headers
C15_Witness ==
    \E p \in Procs :
        /\ Called(p)
        /\ ArgBearer(p) = Some(<<"args-token">>) /\ ~ArgApiKey(p).def
        /\ env["OPENFEATURE_OFREP_API_KEY"].def
        /\ Header(p, "authorization") = Some(<<"Bearer ", "args-token">>)
        /\ Header(p, "X-API-Key") = env["OPENFEATURE_OFREP_API_KEY"]

\* the arguments of p do not have the declared shape: a base_url that is
\* not a URL, a targetingKey that is not a string, an empty token or key
Misshapen(p) ==
    LET a == args[p]
    IN  \/ a.base_url.def
           /\ (a.base_url.v = <<>> \/ a.base_url.v[1] \notin UrlHeads)
        \/ a.context.def /\ \E i \in 1..Len(a.context.v) :
               a.context.v[i] = TargetingKeyNum
        \/ a.auth.def /\ a.auth.bearer_token = Some(<<>>)
        \/ a.auth.def /\ a.auth.api_key = Some(<<>>)

\* C16: an invocation whose arguments do not have the declared shape ends
\* with a validation error and calls neither the resolver nor fetch, also
\* when the environment or the file holds a valid base URL.
C16_MisshapenArgsNoCall ==
    \A p \in Procs :
        (pc[p] # "idle" /\ Misshapen(p)) =>
            /\ pc[p] = "done"
            /\ outcome[p] = Threw("ZodError")
            /\ fetchCalls[p] = 0
            /\ request[p] = NoRequest
            /\ cfg[p] = NullCfg

\* C16 witness: base_url is not a URL while the environment and the file
\* both hold one; the invocation ended with the validation error
C16_Witness ==
    \E p \in Procs :
        /\ pc[p] = "done" /\ args[p].base_url = Some(NotAUrl)
        /\ env["OPENFEATURE_OFREP_BASE_URL"] = Some(EnvBaseOF)
        /\ file = FullFile
        /\ outcome[p] = Threw("ZodError")
        /\ fetchCalls[p] = 0

----------------------------------------------------------------------------
(* Properties of the install tool.                                         *)

\* the install call of p has ended, and its guide is one of the guides
Installed(p) ==
    install[p].pc = "done" /\ install[p].args.guide \in INSTALL_GUIDES

\* the providers list of p's call, empty when the argument is absent
Requested(p) ==
    IF install[p].args.providers.def THEN install[p].args.providers.v
    ELSE <<>>

\* text has a providers region
HasRegion(text) ==
    \E i, j \in 1..Len(text) :
        i < j /\ text[i] = MarkerStart /\ text[j] = MarkerEnd

\* the positions of the delimiters of the first providers region
RegionStart(text) ==
    CHOOSE i \in 1..Len(text) :
        text[i] = MarkerStart /\ \A k \in 1..(i - 1) : text[k] # MarkerStart

RegionEnd(text) ==
    CHOOSE j \in 1..Len(text) :
        /\ j > RegionStart(text) /\ text[j] = MarkerEnd
        /\ \A k \in (RegionStart(text) + 1)..(j - 1) : text[k] # MarkerEnd

\* text without its providers region
StripRegion(text) ==
    IF HasRegion(text)
    THEN SubSeq(text, 1, RegionStart(text) - 1)
         \o SubSeq(text, RegionEnd(text) + 1, Len(text))
    ELSE text

LineStarts(text) == {k \in 1..Len(text) : text[k] = "- **"}

\* the position where the i-th instruction line of text begins
LineStart(text, i) ==
    CHOOSE k \in LineStarts(text) :
        Cardinality({j \in LineStarts(text) : j <= k}) = i

\* every provider of the list is one of the providers and has a URL for
\* the guide
AllMapped(ps, guide) ==
    \A i \in 1..Len(ps) :
        ps[i] \in PROVIDERS /\ PROVIDER_DOCS[ps[i]][guide] # <<>>

\* C18: for every guide and every providers list whose providers all have
\* a URL for the guide, the returned text is the text of the guide followed
\* by exactly one instruction line per element of the list, repeated
\* providers included, in the order of the list, the i-th line naming the
\* i-th provider and its URL for the guide.
C18_OneLinePerProviderInOrder ==
    \A p \in Procs :
        LET guide == install[p].args.guide
            ps == Requested(p)
            base == BUNDLED_PROMPTS[guide]
            text == install[p].outcome.text
        IN  (Installed(p) /\ AllMapped(ps, guide)) =>
                /\ install[p].outcome.kind = "returned"
                /\ Len(text) >= Len(base)
                /\ SubSeq(text, 1, Len(base)) = base
                /\ Cardinality(LineStarts(text)) = Len(ps)
                /\ Cardinality({k \in (Len(base) + 1)..Len(text) :
                                   text[k] = "\n"}) =
                       IF ps = <<>> THEN 0 ELSE Len(ps) - 1
                /\ \A i \in 1..Len(ps) :
                      LET k == LineStart(text, i)
                          url == PROVIDER_DOCS[ps[i]][guide]
                      IN  /\ k > Len(base)
                          /\ text[k + 1] = ps[i]
                          /\ SubSeq(text, k + 3, k + 2 + Len(url)) = url

\* C18 witness: the react guide was asked for with launchdarkly twice and
\* then devcycle, and the text ends with their three lines in that order
C18_Witness ==
    \E p \in Procs :
        LET text == install[p].outcome.text
        IN  /\ Installed(p) /\ install[p].args.guide = "react"
            /\ install[p].args.providers =
                   Some(<<"launchdarkly", "launchdarkly", "devcycle">>)
            /\ install[p].outcome.kind = "returned"
            /\ Cardinality(LineStarts(text)) = 3
            /\ text[LineStart(text, 1) + 1] = "launchdarkly"
            /\ text[LineStart(text, 2) + 1] = "launchdarkly"
            /\ text[LineStart(text, 3) + 1] = "devcycle"

\* C19: a call whose guide is not one of the guides, or whose providers
\* list holds, at any position, a name that is not one of the providers,
\* fails as a whole: it throws, and returns no guide text and no part of a
\* provider block.
C19_UnknownIdFailsWholeCall ==
    \A p \in Procs :
        (/\ install[p].pc = "done"
         /\ \/ install[p].args.guide \notin INSTALL_GUIDES
            \/ \E i \in 1..Len(Requested(p)) :
                   Requested(p)[i] \notin PROVIDERS) =>
            /\ install[p].outcome.kind = "threw"
            /\ install[p].outcome.text = <<>>

\* C19 witness: a known guide, a known provider first and an unknown one
\* last; the call threw
C19_Witness ==
    \E p \in Procs :
        /\ install[p].pc = "done" /\ install[p].args.guide = "react"
        /\ install[p].args.providers = Some(<<"devcycle", "acme">>)
        /\ install[p].outcome.kind = "threw"
        /\ install[p].outcome.text = <<>>

\* the contents of the providers region of text
RegionContents(text) ==
    SubSeq(text, RegionStart(text) + 1, RegionEnd(text) - 1)

\* seq holds the tokens of part, in a row
Contains(seq, part) ==
    \E k \in 0..(Len(seq) - Len(part)) :
        SubSeq(seq, k + 1, k + Len(part)) = part

SearchLine(provider, guide) ==
    <<"- **", provider, "**: No specific ", guide,
      " documentation URL found. Search for \"", provider, " OpenFeature ",
      guide,
      "\" installation documentation and provide installation instructions if available.">>

\* C21: a call whose providers are all recognized succeeds also when some
\* of them have no URL for the guide, and the line of such a provider, at
\* the provider's position in the list, recommends a web search for
\* "{provider} OpenFeature {guide}" installation documentation and names no
\* URL.
C21_UnmappedProviderSearchLine ==
    \A p \in Procs :
        LET guide == install[p].args.guide
            ps == Requested(p)
            text == install[p].outcome.text
        IN  (Installed(p) /\ \A i \in 1..Len(ps) : ps[i] \in PROVIDERS) =>
                /\ install[p].outcome.kind = "returned"
                /\ Cardinality(LineStarts(text)) = Len(ps)
                /\ \A i \in 1..Len(ps) :
                      PROVIDER_DOCS[ps[i]][guide] = <<>> =>
                          LET k == LineStart(text, i)
                              line == SearchLine(ps[i], guide)
                          IN  /\ k + Len(line) - 1 <= Len(text)
                              /\ SubSeq(text, k, k + Len(line) - 1) = line
                              /\ (k + Len(line) <= Len(text)) =>
                                     text[k + Len(line)] = "\n"

\* C21 witness: the ios guide with devcycle, which has a URL, then flagd,
\* which has none; the call returned and its second line is the search line
C21_Witness ==
    \E p \in Procs :
        LET text == install[p].outcome.text
        IN  /\ Installed(p) /\ install[p].args.guide = "ios"
            /\ install[p].args.providers = Some(<<"devcycle", "flagd">>)
            /\ PROVIDER_DOCS["flagd"]["ios"] = <<>>
            /\ install[p].outcome.kind = "returned"
            /\ text[LineStart(text, 1) + 1] = "devcycle"
            /\ SubSeq(text, LineStart(text, 2), Len(text))
                   = SearchLine("flagd", "ios")

\* C22: the install tool is a function of its arguments and the two
\* tables: two calls with equal arguments have equal outcomes, whatever
\* calls were made between them, and no call changes the guide texts, the
\* provider table, the environment, the file or the state of an OFREP
\* invocation.
C22_InstallIsPure ==
    /\ tables = [prompts |-> BUNDLED_PROMPTS, docs |-> PROVIDER_DOCS]
    /\ env = NoEnv /\ file = MissingFile
    /\ \A p \in Procs :
          /\ pc[p] = "idle" /\ outcome[p] = NoOutcome /\ fetchCalls[p] = 0
          /\ request[p] = NoRequest
    /\ \A p, q \in Procs :
          (/\ install[p].pc = "done" /\ install[q].pc = "done"
           /\ install[p].args = install[q].args) =>
              install[p].outcome = install[q].outcome

\* C22 witness: two calls for the react guide with devcycle have ended with
\* the same text, which carries the provider block
C22_Witness ==
    \E p, q \in Procs :
        /\ p # q
        /\ install[p].pc = "done" /\ install[q].pc = "done"
        /\ install[p].args = [guide |-> "react",
                              providers |-> Some(<<"devcycle">>)]
        /\ install[q].args = install[p].args
        /\ install[p].outcome.kind = "returned"
        /\ Cardinality(LineStarts(install[p].outcome.text)) = 1
        /\ install[q].outcome = install[p].outcome

----------------------------------------------------------------------------
(* Properties of the adapters and of the server process.                   *)

\* what the claim of the adapters asks of reply r to handler outcome out of
\* tool name: the result itself, or the text made of the error
Forwarded(name, out, r) ==
    /\ r.kind # "rejected"
    /\ out.kind = "returned" => r = [kind |-> "result", text |-> out.text]
    /\ out.kind = "threw" =>
          /\ r.kind = "result"
          /\ Len(r.text) > 3
          /\ SubSeq(r.text, 1, 3) = <<"Error in ", name, ": ">>

\* C23: for every registered tool and every call, the adapter gives the
\* server the handler's result unchanged when the handler returns one, and
\* the text 'Error in {tool}: {message}' when the validation or the handler
\* throws; the adapter's own handler never rejects.
C23_AdapterForwardsOrFormats ==
    \A p \in Procs :
        /\ reply[p].ofrep.kind # "none" =>
              Forwarded("ofrep_flag_eval", outcome[p], reply[p].ofrep)
        /\ reply[p].install.kind # "none" =>
              Forwarded("install_openfeature_sdk", install[p].outcome,
                        reply[p].install)


\* C24: no failing tool call, and no exception or rejection outside the
\* handlers, ends the server process: a step that ends it is the arrival of
\* SIGINT or SIGTERM or the closure of the transport, and it is no step of a
\* tool call; every other step leaves the process running.
C24_ExitsOnlyOnSignalOrClose ==
    [][process.up =>
          \/ process'.up
          \/ /\ process'.cause \in {"SIGINT", "SIGTERM", "close"}
             /\ UNCHANGED <<pc, outcome, reply, install>>]_vars

\* C24 witness: the process has logged an exception and a rejection, the
\* install call has been answered with the text of its validation error, and
\* the process, still running, has answered an OFREP call with a result
C24_Witness ==
    /\ process.up /\ process.faults = MaxFaults
    /\ \E p \in SeqProcs :
          /\ install[p].outcome.kind = "threw"
          /\ reply[p].install.kind = "result"
          /\ outcome[p].kind = "returned"
          /\ reply[p].ofrep.kind = "result"
          /\ fetchCalls[p] = 1


----------------------------------------------------------------------------
(* Properties of every result of the OFREP tool.                           *)

\* text is the JSON encoding of an object: JSON.stringify of an object
\* value opens with a brace and closes with one
IsJsonObjectText(text) ==
    /\ Len(text) >= 2
    /\ text[1] = "{"
    /\ text[Len(text)] = "}"

\* C25: every result the OFREP handler returns, whether the remote answered
\* 2xx, 304 or another status, the network call failed or no base URL was
\* configured, is one text block whose text is a JSON-encoded result object.
C25_ResultIsJsonObject ==
    \A p \in Procs :
        (pc[p] = "done" /\ outcome[p].kind = "returned") =>
            IsJsonObjectText(outcome[p].text)

\* the same for the results built after the network call only
C25_CallResultIsJsonObject ==
    \A p \in Procs :
        (pc[p] = "done" /\ outcome[p].kind = "returned" /\ ~cfg[p].null) =>
            IsJsonObjectText(outcome[p].text)


\* the text opens as the encoding of an object whose first member is status
\* with the number code
StatusIs(text, code) ==
    /\ Len(text) >= 6
    /\ SubSeq(text, 1, 5) = <<"{", "\"", "status", "\"", ":">>
    /\ text[6] = ToString(code)

\* C26: for every response received from the remote service the status
\* member of the result is the HTTP status code of that response, for every
\* code in 200..299, for 304 and for every other code.
C26_StatusIsResponseStatus ==
    \A p \in Procs :
        Answered(p) =>
            /\ outcome[p].kind = "returned"
            /\ StatusIs(outcome[p].text, response[p].status)

\* the same with 200 for every code in 200..299
C26_StatusIsResponseStatusOr200 ==
    \A p \in Procs :
        Answered(p) =>
            /\ outcome[p].kind = "returned"
            /\ StatusIs(outcome[p].text,
                        IF Ok(response[p]) THEN 200 ELSE response[p].status)


----------------------------------------------------------------------------
(* The resolver keeps nothing.                                             *)

\* C27: the resolver holds no configuration outside an invocation, and the
\* configuration of every invocation is the one its arguments, the
\* environment and the file give as they are during that invocation: what
\* was changed since an earlier invocation is what it resolves from.
C27_ResolverKeepsNothing ==
    \A p \in Procs :
        /\ pc[p] = "idle" =>
              /\ cfg[p] = NullCfg
              /\ envRead[p] = NoEnvRead
              /\ parsed[p] = NoArgs
        /\ (/\ pc[p] \in {"fetching", "done"}
            /\ ArgsValid(args[p])
            /\ ~readConfigFromFile(file).threw) =>
              cfg[p] = resolveConfig(OfrepArgsSchemaParse(args[p]),
                                     ReadEnv(env), readConfigFromFile(file))

\* C27 witness: the environment and the file were both changed after the
\* start, and an invocation with no base_url and no auth of its own has sent
\* its request to the base URL of the environment with the key of the file
C27_Witness ==
    \E p \in SeqProcs :
        /\ pc[p] = "fetching" /\ fetchCalls[p] = 1
        /\ ~args[p].base_url.def /\ ~args[p].auth.def
        /\ env["OPENFEATURE_OFREP_BASE_URL"] = Some(EnvBaseOF)
        /\ file.kind = "section" /\ file.OFREP.baseUrl = Some(FileBase)
        /\ file.OFREP.apiKey = Some(<<"file-key">>)
        /\ cfg[p].baseUrl = EnvBaseOF
        /\ cfg[p].apiKey = <<"file-key">>
        /\ request[p].url[1] = "https://env.example.com"


----------------------------------------------------------------------------
(* Invocations in flight together.                                         *)

\* what invocation p does when it runs alone with its arguments, the
\* environment, the file and the answer r of the remote: its request, whether
\* it calls the remote, and how its handler settles
Alone(p, r) ==
    LET a == OfrepArgsSchemaParse(args[p])
        fileCfg == readConfigFromFile(file)
        c == resolveConfig(a, ReadEnv(env), fileCfg)
    IN  IF ~ArgsValid(args[p])
        THEN [calls |-> FALSE, request |-> NoRequest,
              outcome |-> Threw("ZodError")]
        ELSE IF fileCfg.threw
        THEN [calls |-> FALSE, request |-> NoRequest,
              outcome |-> Threw("FileError")]
        ELSE IF c.null
        THEN [calls |-> FALSE, request |-> NoRequest,
              outcome |-> Returned(MissingBaseUrlText)]
        ELSE IF isSingle(a) /\ URIMalformed(a.flag_key.v)
        THEN [calls |-> FALSE, request |-> NoRequest,
              outcome |-> Threw("URIError")]
        ELSE [calls |-> TRUE, request |-> BuildRequest(c, a),
              outcome |-> Returned(HandleResponse(a, r).text)]

\* C28: under every interleaving of the steps of the invocations in flight,
\* the request of each invocation and the way it settles are the ones it
\* produces alone with its arguments, the environment, the file and the
\* answer it got; what another invocation does changes neither.
C28_InvocationsDoNotInteract ==
    \A p \in Procs :
        /\ pc[p] = "fetching" =>
              /\ Alone(p, NoResponse).calls
              /\ request[p] = Alone(p, NoResponse).request
              /\ fetchCalls[p] = 1
        /\ pc[p] = "done" =>
              /\ request[p] = Alone(p, response[p]).request
              /\ outcome[p] = Alone(p, response[p]).outcome
              /\ fetchCalls[p] = IF Alone(p, response[p]).calls THEN 1 ELSE 0

\* C28 witness: two invocations with different arguments are in flight
\* together; one has its result from a 200 answer while the other, which
\* sent an etag, awaits its answer, and their requests differ
C28_Witness ==
    \E p, q \in Procs :
        /\ p # q
        /\ pc[p] = "done" /\ response[p].status = 200
        /\ outcome[p].kind = "returned"
        /\ args[p].flag_key.def
        /\ pc[q] = "fetching" /\ ~args[q].flag_key.def /\ args[q].etag.def
        /\ request[p].url # request[q].url


----------------------------------------------------------------------------
(* The data of a successful result.                                        *)

\* text has a data member: the token data between quotation marks, followed
\* by a colon
HasDataMember(text) ==
    \E i \in 2..Len(text) :
        /\ i + 2 <= Len(text)
        /\ text[i - 1] = "\""
        /\ text[i] = "data"
        /\ text[i + 1] = "\""
        /\ text[i + 2] = ":"

\* C29: the result of every answer with a status in 200..299 and a JSON
\* content type has a data member, which holds the parsed body; a body that
\* does not parse is not reported as a success without data.
C29_JsonSuccessCarriesData ==
    \A p \in Procs :
        (/\ Answered(p) /\ Ok(response[p])
         /\ response[p].contentType.def
         /\ IncludesJson(response[p].contentType.v)) =>
            /\ outcome[p].kind = "returned"
            /\ HasDataMember(outcome[p].text)


----------------------------------------------------------------------------
(* The base URL in the request URL.                                        *)

\* the number of "/" the request URL may lack at the end of base URL b: one
\* when b ends with one, none otherwise
Trimmed(b) == IF b # <<>> /\ b[Len(b)] = "/" THEN 1 ELSE 0

\* b ends with at most one "/"
AtMostOneSlash(b) == Len(b) >= 2 => ~(b[Len(b)] = "/" /\ b[Len(b) - 1] = "/")

\* C30: the request URL is the resolved base URL, less one "/" when it ends
\* with one, followed by the endpoint path; every other token of the base
\* URL is in the request URL as it is, and a base URL that ends with at most
\* one "/" gives a URL with no "/" before the path, the same with the "/" as
\* without it.
C30_OneTrailingSlashTrimmed ==
    \A p \in Procs :
        fetchCalls[p] >= 1 =>
            LET b == cfg[p].baseUrl
                url == request[p].url
                n == Len(b) - Trimmed(b)
            IN  /\ Len(url) > n
                /\ SubSeq(url, 1, n) = SubSeq(b, 1, n)
                /\ url[n + 1] = IF KeyGiven(p)
                                THEN "/ofrep/v1/evaluate/flags/"
                                ELSE "/ofrep/v1/evaluate/flags"
                /\ (AtMostOneSlash(b) /\ n >= 1) => url[n] # "/"

\* C30 witness: the base URL "https://args.example.com/" gave the bulk URL
\* "https://args.example.com/ofrep/v1/evaluate/flags"
C30_Witness ==
    \E p \in Procs :
        /\ fetchCalls[p] = 1
        /\ cfg[p].baseUrl = ArgBaseSlash
        /\ request[p].url = <<"https://args.example.com",
                              "/ofrep/v1/evaluate/flags">>

\* a base URL without a trailing "/" gave the URL of the same shape
C30_WitnessNoSlash ==
    \E p \in Procs :
        /\ fetchCalls[p] = 1
        /\ cfg[p].baseUrl # <<>>
        /\ Trimmed(cfg[p].baseUrl) = 0
        /\ request[p].url = cfg[p].baseUrl \o <<"/ofrep/v1/evaluate/flags">>

====
